---- MODULE Spec2Model ----
(***************************************************************************)
(* og-task-grype: the durable job worker (worker/worker.go).               *)
(*                                                                         *)
(* One consumer callback handles one job message at a time: it renews the  *)
(* lease (msg.InProgress), starts a 15 s ticker and a heartbeat goroutine, *)
(* runs ProcessMessage, stops the ticker and acknowledges the message.     *)
(* ProcessMessage decodes the request, publishes the in-progress message,  *)
(* checks the parameters, runs fetchImage and the scanner, and publishes   *)
(* the terminal result from a deferred function.                           *)
(*                                                                         *)
(* Calls that leave the process (msg.InProgress, msg.Ack, jq.Produce,      *)
(* the registry pull, the scanner subprocess, the file system) are         *)
(* nondeterministic in their outcome.  Errors are sequences of message     *)
(* parts, the nil error is the empty sequence.                             *)
(***************************************************************************)
EXTENDS Naturals, Sequences, FiniteSets

\* ------------------------------------------------------------------ bounds
MaxMsgs == 2        \* job messages delivered to the callback in one run
MaxTicks == 2       \* ticks the tickers fire in one run

\* --------------------------------------------------------------- constants
TaskRunStatusInProgress == "in-progress"
TaskRunStatusFinished == "finished"
TaskRunStatusFailed == "failed"

RegistryGHCR == "ghcr"

NoErr == <<>>
PublishErr == <<"jq: publish failed">>
NoText == <<>>

\* err.Error(): the text of a non-nil error is its message.
ErrorText(e) == e

\* fmt.Errorf("<prefix>%v", inner): a new error wrapping the text of inner.
Wrap(prefix, inner) == <<prefix>> \o ErrorText(inner)

\* ------------------------------------------------------------------ inputs
RunIDs == {7, 42}
ArtifactURL == "ghcr.io/example/app:v1.0"

\* request.Params as a set of <<key, value>> pairs (a Go map[string]string).
ParamSets ==
    { {},
      { <<"oci_artifact_url", ArtifactURL>>,
        <<"github_username", "u">>, <<"github_token", "t">> },
      { <<"oci_artifact_url", ArtifactURL>>, <<"registry_type", "ghcr">>,
        <<"github_username", "u">> },
      { <<"oci_artifact_url", ArtifactURL>>, <<"registry_type", "ecr">>,
        <<"ecr_account_id", "1234">>, <<"ecr_region", "eu-west-1">> },
      { <<"oci_artifact_url", ArtifactURL>>, <<"registry_type", "acr">>,
        <<"acr_login_server", "example.azurecr.io">>, <<"acr_tenant_id", "tenant">> },
      { <<"oci_artifact_url", ArtifactURL>>, <<"registry_type", "GHCR">>,
        <<"github_username", "u">>, <<"github_token", "t">> } }

\* msg.Data(): either bytes json.Unmarshal rejects, or an encoded TaskRequest.
Bodies ==
    { [decodes |-> FALSE, RunID |-> 0, Params |-> {}] }
    \cup { [decodes |-> TRUE, RunID |-> r, Params |-> p] : r \in RunIDs, p \in ParamSets }

\* Combined stdout/stderr of the scanner.
ScanOutputs == { "grype-table" }

Msgs == 1..MaxMsgs

\* v, ok := params[k]
HasKey(params, k) == \E p \in params : p[1] = k
Lookup(params, k) == IF HasKey(params, k)
                     THEN (CHOOSE p \in params : p[1] = k)[2]
                     ELSE ""

getCredsFromParams(params) ==
    [ GithubUsername |-> Lookup(params, "github_username"),
      GithubToken    |-> Lookup(params, "github_token"),
      ECRAccountID   |-> Lookup(params, "ecr_account_id"),
      ECRRegion      |-> Lookup(params, "ecr_region"),
      ACRLoginServer |-> Lookup(params, "acr_login_server"),
      ACRTenantID    |-> Lookup(params, "acr_tenant_id") ]

\* utils.GetGHCRCredentials(username, token): fails when either is empty.
GetGHCRCredentials(username, token) ==
    IF username = "" \/ token = ""
    THEN <<"GHCR requires --gh-username and --gh-token">>
    ELSE NoErr

\* The registry switch of fetchImage: the error it returns, or NoErr.
ResolveCredentials(regType, creds) ==
    IF regType = RegistryGHCR
    THEN LET e == GetGHCRCredentials(creds.GithubUsername, creds.GithubToken)
         IN  IF e # NoErr THEN Wrap("GHCR error: ", e) ELSE NoErr
    ELSE <<"Unsupported registry type: ", regType>>

\* Errors of writing the credentials file (os.MkdirAll, os.WriteFile).
WriteConfigOutcomes ==
    { NoErr,
      <<"Error creating directory for output file: ", "mkdir">>,
      <<"Error writing to output file: ", "write">> }

\* Errors of pullAndCreateDockerArchive up to and including oras.Copy.
PullOutcomes ==
    { NoErr,
      <<"oras pull failed: ", "unauthorized">> }

\* Errors of pullAndCreateDockerArchive after the copy: reading the manifest,
\* validating the media types, writing the files, createTar.
BuildOutcomes ==
    { NoErr,
      <<"media type validation failed: ", "layer media type is not allowed">>,
      <<"failed to create tar: ", "create">> }

ZeroResponse == [RunID |-> 0, Status |-> "", FailureMessage |-> NoText, Result |-> ""]
ZeroRequest == [RunID |-> 0, Params |-> {}]
NoRenewals == [running |-> FALSE, late |-> "none", failed |-> FALSE]

\* ------------------------------------------------------------------- state
VARIABLES
    delivered,      \* messages handed to the callback so far; the current one's id
    msgData,        \* msg.Data() of the current message
    hpc,            \* where the callback is
    ppc,            \* where ProcessMessage is
    request,        \* the decoded scheduler.TaskRequest
    response,       \* the scheduler.TaskResponse being built
    err,            \* ProcessMessage's named result err
    ociArtifactURL, \* local of ProcessMessage
    registryType,   \* local of ProcessMessage
    produced,       \* jq.Produce calls made for the current message, in order
    hlog,           \* what the callback's goroutine did for the current message, in
                    \* program order: its calls, the pipeline steps it started, its
                    \* Produce calls and ProcessMessage's return
    renewals,       \* periodic msg.InProgress calls made for the current message:
                    \* one made while ProcessMessage ran, the latest phase one was
                    \* made in after it returned, one that failed
    ticker,         \* per message: "none", "running", "stopped"
    tickC,          \* per message: ticker.C holds a tick (capacity 1)
    hb,             \* per message: heartbeat goroutine "none", "wait", "renew"
    ticks,          \* ticks fired so far
    tickInPipeline, \* a tick fired while the current ProcessMessage was running
    shutdown        \* Run's context: whether it is done and consumption stopped,
                    \* and the message that was being handled when it was cancelled

\* The registry credential resolver with the three registry kinds (the
\* fetchImage of task.sh and the functions it calls), run on its own.
VARIABLES
    fpc,            \* where fetchImage is
    fin,            \* its arguments: registryType, output, ociArtifactURI, creds
    cfgAuths,       \* cfg.Auths: the entries [host, auth] made so far
    fErr,           \* the error fetchImage returned
    fCalls,         \* the calls it made that leave the process, in order
    fLocals,        \* getACRAuth's locals: aadToken, refreshToken
    fLookup         \* what the pull's credential function returned, call by call

\* The archive build of the worker (fetchImage and
\* pullAndCreateDockerArchive of fetch-image.go) over a sequence of jobs.
VARIABLES
    bpc,            \* where fetchImage is
    bjob,           \* how many jobs have called it
    bin,            \* its arguments for the current job
    wd,             \* the working directory: file name -> content
    memoryStore,    \* the digests held by the package-level content store
    bErr,           \* the error fetchImage returns
    bref,           \* the parsed reference
    manifest,       \* the manifest oras.Copy resolved
    layerFiles,     \* the layerFiles slice
    tarPos,         \* createTar's position in its file list
    bwritten,       \* the files the current job has written
    bclean,         \* the working directory was empty when the job started
    builds          \* what each returned job left at image.tar

\* The multi-artifact RunTask of package task.
VARIABLES
    tpc,            \* where RunTask is
    tparams,        \* request.TaskDefinition.Params
    ti,             \* how many artifacts the loop has taken
    tlocals,        \* registryType, artifactUrl, artifactDigest, the decoded matches
    tcalls,         \* the calls RunTask made, in order
    tErr,           \* the error RunTask returns
    tResult,        \* response.Result
    tstored,        \* the documents sent to the index
    tids            \* ids

pmVars == <<ppc, request, response, err, ociArtifactURL, registryType, produced>>
hbVars == <<renewals, ticker, tickC, hb, ticks, tickInPipeline>>
fetchVars == <<fpc, fin, cfgAuths, fErr, fCalls, fLocals, fLookup>>
buildVars == <<bpc, bjob, bin, wd, memoryStore, bErr, bref, manifest, layerFiles, tarPos,
              bwritten, bclean, builds>>
taskVars == <<tpc, tparams, ti, tlocals, tcalls, tErr, tResult, tstored, tids>>
vars == <<delivered, msgData, hpc, hlog, pmVars, hbVars, shutdown, fetchVars, buildVars, taskVars>>

\* No job has been delivered yet.
WorkerIdle ==
    /\ delivered = 0
    /\ msgData = [decodes |-> FALSE, RunID |-> 0, Params |-> {}]
    /\ hpc = "idle"
    /\ ppc = "none"
    /\ request = ZeroRequest
    /\ response = ZeroResponse
    /\ err = NoErr
    /\ ociArtifactURL = ""
    /\ registryType = ""
    /\ produced = <<>>
    /\ hlog = <<>>
    /\ renewals = NoRenewals
    /\ ticker = [m \in Msgs |-> "none"]
    /\ tickC = [m \in Msgs |-> FALSE]
    /\ hb = [m \in Msgs |-> "none"]
    /\ ticks = 0
    /\ tickInPipeline = FALSE
    /\ shutdown = [ done |-> FALSE, job |-> 0 ]

NoCreds == [ GithubUsername |-> <<>>, GithubToken |-> <<>>,
             ECRAccountID |-> <<>>, ECRRegion |-> <<>>,
             ACRLoginServer |-> <<>>, ACRTenantID |-> <<>> ]
NoLocals == [ aadToken |-> <<>>, refreshToken |-> <<>> ]

\* The resolver is not run on its own.
FetchIdle ==
    /\ fpc = "idle"
    /\ fin = [ registryType |-> "", output |-> "", ociArtifactURI |-> "", creds |-> NoCreds ]
    /\ cfgAuths = {}
    /\ fErr = NoErr
    /\ fCalls = <<>>
    /\ fLocals = NoLocals
    /\ fLookup = <<>>

\* The archive build before the first job: an empty working directory and
\* an empty memoryStore.
\* fmt.Sprintf("layer%d.tar", i+1) for the loop index i = k-1.
LayerNames == << "layer1.tar", "layer2.tar", "layer3.tar", "layer4.tar" >>
LayerFileName(k) == LayerNames[k]

FileNames ==
    { "image.tar", "oci-manifest.json", "config.json", "manifest.json" }
        \cup { LayerNames[k] : k \in 1..Len(LayerNames) }

\* A name without a file.
Absent == [ type |-> "absent" ]

EmptyDir == [ n \in FileNames |-> Absent ]

\* A Go slice of strings is nil until the first append.
NilSlice == [ nil |-> TRUE, elems |-> << >> ]

NoManifest == [ Digest |-> "", Config |-> [ MediaType |-> "", Digest |-> "" ], Layers |-> << >> ]

NoBuildInput == [ registryType |-> "", credsOK |-> FALSE, ociArtifactURI |-> << >> ]
NoRef == [ ok |-> FALSE, Registry |-> "", Repository |-> "", Reference |-> "" ]

BuildIdle ==
    /\ bpc = "idle"
    /\ bjob = 0
    /\ bin = NoBuildInput
    /\ wd = EmptyDir
    /\ memoryStore = {}
    /\ bErr = NoErr
    /\ bref = NoRef
    /\ manifest = NoManifest
    /\ layerFiles = NilSlice
    /\ tarPos = 0
    /\ bwritten = {}
    /\ bclean = TRUE
    /\ builds = << >>

\* RunTask has not been called.
NoTaskLocals == [ registryType |-> "", artifactUrl |-> "", artifactDigest |-> "", matches |-> << >> ]
NoResult == [ set |-> FALSE, ids |-> << >> ]

TaskIdle ==
    /\ tpc = "idle"
    /\ tparams = [ oci_artifact_url |-> << >>, artifact_digest |-> << >>, registry_type |-> << >> ]
    /\ ti = 0
    /\ tlocals = NoTaskLocals
    /\ tcalls = << >>
    /\ tErr = NoErr
    /\ tResult = NoResult
    /\ tstored = << >>
    /\ tids = << >>

Init == WorkerIdle /\ FetchIdle /\ BuildIdle /\ TaskIdle

\* ------------------------------------------------- the consume callback
\* Mutant of Receive: the next message is handed over as soon as
\* ProcessMessage has returned, while the callback still has to stop the
\* ticker and acknowledge.
Receive_BeforeHandlerEnds ==
    /\ hpc = "idle" \/ (hpc = "process" /\ ppc = "returned")
    /\ ~shutdown.done
    /\ delivered < MaxMsgs
    /\ \E b \in Bodies : msgData' = b
    /\ delivered' = delivered + 1
    /\ hpc' = "inprogress"
    /\ ppc' = "none"
    /\ request' = ZeroRequest
    /\ response' = ZeroResponse
    /\ err' = NoErr
    /\ ociArtifactURL' = ""
    /\ registryType' = ""
    /\ produced' = <<>>
    /\ hlog' = <<>>
    /\ renewals' = NoRenewals
    /\ tickInPipeline' = FALSE
    /\ UNCHANGED <<fetchVars, buildVars, taskVars, shutdown, ticker, tickC, hb, ticks>>

\* The queue hands the next message to the callback (PullMaxMessages(1); the
\* callback runs to its end before the next message is handed over).
Receive ==
    /\ hpc = "idle"
    /\ ~shutdown.done
    /\ delivered < MaxMsgs
    /\ \E b \in Bodies : msgData' = b
    /\ delivered' = delivered + 1
    /\ hpc' = "inprogress"
    /\ ppc' = "none"
    /\ request' = ZeroRequest
    /\ response' = ZeroResponse
    /\ err' = NoErr
    /\ ociArtifactURL' = ""
    /\ registryType' = ""
    /\ produced' = <<>>
    /\ hlog' = <<>>
    /\ renewals' = NoRenewals
    /\ tickInPipeline' = FALSE
    /\ UNCHANGED <<fetchVars, buildVars, taskVars, shutdown, ticker, tickC, hb, ticks>>

\* Mutant of InitialInProgress: a failed renewal ends the callback.
InitialInProgress_AbortsOnFailure ==
    /\ hpc = "inprogress"
    /\ \E ok \in BOOLEAN :
          /\ hlog' = Append(hlog, [call |-> "InProgress", ok |-> ok])
          /\ hpc' = IF ok THEN "newticker" ELSE "idle"
    /\ UNCHANGED <<fetchVars, buildVars, taskVars, shutdown, delivered, msgData, pmVars, hbVars>>

\* if err := msg.InProgress(); err != nil { log }
InitialInProgress ==
    /\ hpc = "inprogress"
    /\ \E ok \in BOOLEAN : hlog' = Append(hlog, [call |-> "InProgress", ok |-> ok])
    /\ hpc' = "newticker"
    /\ UNCHANGED <<fetchVars, buildVars, taskVars, shutdown, delivered, msgData, pmVars, hbVars>>

\* ticker := time.NewTicker(15 * time.Second)
NewTicker ==
    /\ hpc = "newticker"
    /\ ticker' = [ticker EXCEPT ![delivered] = "running"]
    /\ hlog' = Append(hlog, [call |-> "NewTicker", ok |-> TRUE])
    /\ hpc' = "go"
    /\ UNCHANGED <<fetchVars, buildVars, taskVars, shutdown, delivered, msgData, pmVars, renewals, tickC, hb, ticks, tickInPipeline>>

\* Mutant of GoHeartbeat: the renewal loop is never started.
GoHeartbeat_NotStarted ==
    /\ hpc = "go"
    /\ hlog' = Append(hlog, [call |-> "go", ok |-> TRUE])
    /\ hpc' = "process"
    /\ UNCHANGED <<fetchVars, buildVars, taskVars, shutdown, delivered, msgData, pmVars, hbVars>>

\* go func() { for range ticker.C { ... } }()
GoHeartbeat ==
    /\ hpc = "go"
    /\ hb' = [hb EXCEPT ![delivered] = "wait"]
    /\ hlog' = Append(hlog, [call |-> "go", ok |-> TRUE])
    /\ hpc' = "process"
    /\ UNCHANGED <<fetchVars, buildVars, taskVars, shutdown, delivered, msgData, pmVars, renewals, ticker, tickC, ticks, tickInPipeline>>

\* err := w.ProcessMessage(ctx, msg)
CallProcessMessage ==
    /\ hpc = "process"
    /\ ppc = "none"
    /\ ppc' = "unmarshal"
    /\ hlog' = Append(hlog, [call |-> "ProcessMessage", ok |-> TRUE])
    /\ UNCHANGED <<fetchVars, buildVars, taskVars, shutdown, delivered, msgData, hpc, request, response, err, ociArtifactURL,
                   registryType, produced, hbVars>>

\* ------------------------------------------------------ ProcessMessage
\* json.Marshal(response): a TaskResponse holds a number, two strings and the
\* scanner's bytes, none of which encoding/json refuses.
MarshalErr(resp) == NoErr

\* The phase of the current message's handling, as the heartbeat sees it.
Phase ==
    IF hpc = "idle" THEN "acked"
    ELSE IF hpc = "ack" \/ ppc = "returned" THEN "returned"
    ELSE IF hpc = "process" /\ ppc # "none" THEN "running"
    ELSE "before"

\* Mutant of PublishProgress: the oci_artifact_url check is made first and a
\* job without the key fails before anything is published.
PublishProgress_AfterParamCheck ==
    /\ hpc = "process"
    /\ ppc = "progress"
    /\ IF ~HasKey(request.Params, "oci_artifact_url")
       THEN /\ hlog' = Append(hlog, [call |-> "params", ok |-> TRUE])
            /\ err' = <<"OCI artifact url parameter is not provided">>
            /\ ppc' = "defer"
            /\ UNCHANGED <<response, produced>>
       ELSE LET resp == [response EXCEPT !.RunID = request.RunID,
                                         !.Status = TaskRunStatusInProgress]
            IN  /\ response' = resp
                /\ \E ok \in BOOLEAN :
                      /\ produced' = Append(produced,
                            [key |-> <<"task-run-inprogress", request.RunID>>,
                             msg |-> resp, ok |-> ok])
                      /\ hlog' = Append(hlog, [call |-> "Produce", ok |-> ok])
                      /\ err' = IF ok THEN NoErr ELSE PublishErr
                /\ ppc' = "params"
    /\ UNCHANGED <<fetchVars, buildVars, taskVars, shutdown, delivered, msgData, hpc, request, ociArtifactURL, registryType, hbVars>>

\* Mutant of Unmarshal: the deferred publisher is installed before the
\* decode, so a body that does not decode is answered with a failed result.
Unmarshal_DeferFirst ==
    /\ hpc = "process"
    /\ ppc = "unmarshal"
    /\ IF ~msgData.decodes
       THEN /\ err' = <<"json: cannot unmarshal message data">>
            /\ ppc' = "defer"
            /\ UNCHANGED <<request, hlog>>
       ELSE /\ request' = [RunID |-> msgData.RunID, Params |-> msgData.Params]
            /\ ppc' = "progress"
            /\ UNCHANGED <<err, hlog>>
    /\ UNCHANGED <<fetchVars, buildVars, taskVars, shutdown, delivered, msgData, hpc, response, ociArtifactURL, registryType,
                   produced, hbVars>>

\* json.Unmarshal(msg.Data(), &request); on error: return err (nothing deferred yet).
Unmarshal ==
    /\ hpc = "process"
    /\ ppc = "unmarshal"
    /\ IF ~msgData.decodes
       THEN /\ err' = <<"json: cannot unmarshal message data">>
            /\ ppc' = "returned"
            /\ hlog' = Append(hlog, [call |-> "return", ok |-> FALSE])
            /\ UNCHANGED request
       ELSE /\ request' = [RunID |-> msgData.RunID, Params |-> msgData.Params]
            /\ ppc' = "progress"
            /\ UNCHANGED <<err, hlog>>
    /\ UNCHANGED <<fetchVars, buildVars, taskVars, shutdown, delivered, msgData, hpc, response, ociArtifactURL, registryType,
                   produced, hbVars>>

\* Mutant of PublishProgress: a failed Produce makes ProcessMessage return
\* the publish error.
PublishProgress_ReturnsOnError ==
    /\ hpc = "process"
    /\ ppc = "progress"
    /\ LET resp == [response EXCEPT !.RunID = request.RunID,
                                    !.Status = TaskRunStatusInProgress]
       IN  /\ response' = resp
           /\ \E ok \in BOOLEAN :
                 /\ produced' = Append(produced,
                       [key |-> <<"task-run-inprogress", request.RunID>>,
                        msg |-> resp, ok |-> ok])
                 /\ hlog' = Append(hlog, [call |-> "Produce", ok |-> ok])
                 /\ err' = IF ok THEN NoErr ELSE PublishErr
                 /\ ppc' = IF ok THEN "params" ELSE "defer"
    /\ UNCHANGED <<fetchVars, buildVars, taskVars, shutdown, delivered, msgData, hpc, request, ociArtifactURL, registryType, hbVars>>

\* response.RunID/Status = in-progress; marshal; Produce on the result topic.
\* The Produce error is assigned to the named result err and only logged.
PublishProgress ==
    /\ hpc = "process"
    /\ ppc = "progress"
    /\ LET resp == [response EXCEPT !.RunID = request.RunID,
                                    !.Status = TaskRunStatusInProgress]
       IN  /\ response' = resp
           /\ IF MarshalErr(resp) # NoErr
              THEN /\ err' = MarshalErr(resp)
                   /\ ppc' = "defer"
                   /\ UNCHANGED <<produced, hlog>>
              ELSE /\ \E ok \in BOOLEAN :
                        /\ produced' = Append(produced,
                              [key |-> <<"task-run-inprogress", request.RunID>>,
                               msg |-> resp, ok |-> ok])
                        /\ hlog' = Append(hlog, [call |-> "Produce", ok |-> ok])
                        /\ err' = IF ok THEN NoErr ELSE PublishErr
                   /\ ppc' = "params"
    /\ UNCHANGED <<fetchVars, buildVars, taskVars, shutdown, delivered, msgData, hpc, request, ociArtifactURL, registryType, hbVars>>

\* Mutant of ReadParams: without a registry_type key the kind is left empty.
ReadParams_NoDefaultKind ==
    /\ hpc = "process"
    /\ ppc = "params"
    /\ hlog' = Append(hlog, [call |-> "params", ok |-> TRUE])
    /\ IF ~HasKey(request.Params, "oci_artifact_url")
       THEN /\ err' = <<"OCI artifact url parameter is not provided">>
            /\ ppc' = "defer"
            /\ UNCHANGED <<ociArtifactURL, registryType>>
       ELSE /\ ociArtifactURL' = Lookup(request.Params, "oci_artifact_url")
            /\ registryType' = Lookup(request.Params, "registry_type")
            /\ ppc' = "creds"
            /\ UNCHANGED err
    /\ UNCHANGED <<fetchVars, buildVars, taskVars, shutdown, delivered, msgData, hpc, request, response, produced, hbVars>>

\* Mutant of ReadParams: a missing oci_artifact_url is read as the empty
\* string and the pipeline goes on.
ReadParams_NoURLCheck ==
    /\ hpc = "process"
    /\ ppc = "params"
    /\ hlog' = Append(hlog, [call |-> "params", ok |-> TRUE])
    /\ ociArtifactURL' = Lookup(request.Params, "oci_artifact_url")
    /\ registryType' = IF HasKey(request.Params, "registry_type")
                       THEN Lookup(request.Params, "registry_type")
                       ELSE "ghcr"
    /\ ppc' = "creds"
    /\ UNCHANGED err
    /\ UNCHANGED <<fetchVars, buildVars, taskVars, shutdown, delivered, msgData, hpc, request, response, produced, hbVars>>

\* The oci_artifact_url check and the registry_type default.
ReadParams ==
    /\ hpc = "process"
    /\ ppc = "params"
    /\ hlog' = Append(hlog, [call |-> "params", ok |-> TRUE])
    /\ IF ~HasKey(request.Params, "oci_artifact_url")
       THEN /\ err' = <<"OCI artifact url parameter is not provided">>
            /\ ppc' = "defer"
            /\ UNCHANGED <<ociArtifactURL, registryType>>
       ELSE /\ ociArtifactURL' = Lookup(request.Params, "oci_artifact_url")
            /\ registryType' = IF HasKey(request.Params, "registry_type")
                               THEN Lookup(request.Params, "registry_type")
                               ELSE "ghcr"
            /\ ppc' = "creds"
            /\ UNCHANGED err
    /\ UNCHANGED <<fetchVars, buildVars, taskVars, shutdown, delivered, msgData, hpc, request, response, produced, hbVars>>

\* fetchImage, the registry switch: resolve the credentials or fail.
FetchCredentials ==
    /\ hpc = "process"
    /\ ppc = "creds"
    /\ LET e == ResolveCredentials(registryType, getCredsFromParams(request.Params))
       IN  /\ hlog' = Append(hlog, [call |-> "credentials", ok |-> e = NoErr])
           /\ IF e # NoErr
              THEN err' = e /\ ppc' = "defer"
              ELSE ppc' = "writecfg" /\ UNCHANGED err
    /\ UNCHANGED <<fetchVars, buildVars, taskVars, shutdown, delivered, msgData, hpc, request, response, ociArtifactURL,
                   registryType, produced, hbVars>>

\* fetchImage: marshal the docker config and write it to the output path.
WriteConfig ==
    /\ hpc = "process"
    /\ ppc = "writecfg"
    /\ \E e \in WriteConfigOutcomes :
          /\ hlog' = Append(hlog, [call |-> "credfile", ok |-> e = NoErr])
          /\ IF e # NoErr
             THEN err' = e /\ ppc' = "defer"
             ELSE ppc' = "pull" /\ UNCHANGED err
    /\ UNCHANGED <<fetchVars, buildVars, taskVars, shutdown, delivered, msgData, hpc, request, response, ociArtifactURL,
                   registryType, produced, hbVars>>

\* pullAndCreateDockerArchive, first part: the reference, the auth client and
\* oras.Copy into the memory store.
Pull ==
    /\ hpc = "process"
    /\ ppc = "pull"
    /\ \E e \in PullOutcomes :
          /\ hlog' = Append(hlog, [call |-> "pull", ok |-> e = NoErr])
          /\ IF e # NoErr
             THEN /\ err' = <<"Failed to process ", ociArtifactURL, ": ">> \o ErrorText(e)
                  /\ ppc' = "defer"
             ELSE /\ ppc' = "build"
                  /\ UNCHANGED err
    /\ UNCHANGED <<fetchVars, buildVars, taskVars, shutdown, delivered, msgData, hpc, request, response, ociArtifactURL,
                   registryType, produced, hbVars>>

\* Mutant of BuildArchive: a failed archive build is logged and the scanner
\* runs all the same.
BuildArchive_IgnoresError ==
    /\ hpc = "process"
    /\ ppc = "build"
    /\ \E e \in BuildOutcomes :
          /\ hlog' = Append(hlog, [call |-> "build", ok |-> e = NoErr])
          /\ err' = NoErr
          /\ ppc' = "scan"
    /\ UNCHANGED <<fetchVars, buildVars, taskVars, shutdown, delivered, msgData, hpc, request, response, ociArtifactURL,
                   registryType, produced, hbVars>>

\* pullAndCreateDockerArchive, second part: manifest, config and layers are
\* written out and packed into image.tar; then err = fetchImage(...) returns.
BuildArchive ==
    /\ hpc = "process"
    /\ ppc = "build"
    /\ \E e \in BuildOutcomes :
          /\ hlog' = Append(hlog, [call |-> "build", ok |-> e = NoErr])
          /\ IF e # NoErr
             THEN /\ err' = <<"Failed to process ", ociArtifactURL, ": ">> \o ErrorText(e)
                  /\ ppc' = "defer"
             ELSE /\ err' = NoErr
                  /\ ppc' = "scan"
    /\ UNCHANGED <<fetchVars, buildVars, taskVars, shutdown, delivered, msgData, hpc, request, response, ociArtifactURL,
                   registryType, produced, hbVars>>

\* Mutant of Scan: a successful scan publishes the finished response itself,
\* before the deferred function publishes the terminal response again.
Scan_PublishesFinished ==
    /\ hpc = "process"
    /\ ppc = "scan"
    /\ \E output \in ScanOutputs, ok \in BOOLEAN :
          IF ~ok
          THEN /\ hlog' = Append(hlog, [call |-> "scan", ok |-> ok])
               /\ err' = <<"exit status 1">>
               /\ UNCHANGED <<response, produced>>
          ELSE LET resp == [response EXCEPT !.Result = output,
                                            !.RunID = request.RunID,
                                            !.Status = TaskRunStatusFinished]
               IN  /\ response' = resp
                   /\ err' = NoErr
                   /\ produced' = Append(produced,
                          [key |-> <<"task-run-result", request.RunID>>,
                           msg |-> resp, ok |-> TRUE])
                   /\ hlog' = hlog \o << [call |-> "scan", ok |-> ok],
                                         [call |-> "Produce", ok |-> TRUE] >>
    /\ ppc' = "defer"
    /\ UNCHANGED <<fetchVars, buildVars, taskVars, shutdown, delivered, msgData, hpc, request, ociArtifactURL, registryType, hbVars>>

\* exec grype; on success fill the response (status finished) and return nil.
Scan ==
    /\ hpc = "process"
    /\ ppc = "scan"
    /\ \E output \in ScanOutputs, ok \in BOOLEAN :
          /\ hlog' = Append(hlog, [call |-> "scan", ok |-> ok])
          /\ IF ~ok
             THEN /\ err' = <<"exit status 1">>
                  /\ UNCHANGED response
             ELSE LET resp == [response EXCEPT !.Result = output,
                                               !.RunID = request.RunID,
                                               !.Status = TaskRunStatusFinished]
                  IN  /\ response' = resp
                      /\ err' = MarshalErr(resp)
    /\ ppc' = "defer"
    /\ UNCHANGED <<fetchVars, buildVars, taskVars, shutdown, delivered, msgData, hpc, request, ociArtifactURL, registryType,
                   produced, hbVars>>

\* The status the deferred function gives the terminal response.
TerminalStatus(e) ==
    IF e # NoErr THEN TaskRunStatusFailed ELSE TaskRunStatusFailed

\* Mutant of PublishResult: the deferred function publishes only a failure.
PublishResult_OnlyOnError ==
    /\ hpc = "process"
    /\ ppc = "defer"
    /\ IF err # NoErr
       THEN LET resp == [response EXCEPT !.FailureMessage = ErrorText(err),
                                         !.Status = TaskRunStatusFailed]
            IN  /\ response' = resp
                /\ \E ok \in BOOLEAN :
                      /\ produced' = Append(produced,
                             [key |-> <<"task-run-result", request.RunID>>,
                              msg |-> resp, ok |-> ok])
                      /\ hlog' = hlog \o << [call |-> "Produce", ok |-> ok],
                                            [call |-> "return", ok |-> FALSE] >>
       ELSE /\ hlog' = Append(hlog, [call |-> "return", ok |-> TRUE])
            /\ UNCHANGED <<response, produced>>
    /\ ppc' = "returned"
    /\ UNCHANGED <<fetchVars, buildVars, taskVars, shutdown, delivered, msgData, hpc, request, err, ociArtifactURL, registryType,
                   hbVars>>

\* Mutant of PublishResult: once the context is cancelled the deferred
\* function gives up and publishes nothing.
PublishResult_NotWhenCancelled ==
    /\ hpc = "process"
    /\ ppc = "defer"
    /\ LET resp == IF err # NoErr
                   THEN [response EXCEPT !.FailureMessage = ErrorText(err),
                                         !.Status = TerminalStatus(err)]
                   ELSE [response EXCEPT !.Status = TerminalStatus(err)]
       IN  /\ response' = resp
           /\ IF shutdown.done
              THEN /\ UNCHANGED produced
                   /\ hlog' = Append(hlog, [call |-> "return", ok |-> err = NoErr])
              ELSE \E ok \in BOOLEAN :
                      /\ produced' = Append(produced,
                             [key |-> <<"task-run-result", request.RunID>>,
                              msg |-> resp, ok |-> ok])
                      /\ hlog' = hlog \o << [call |-> "Produce", ok |-> ok],
                                            [call |-> "return", ok |-> err = NoErr] >>
    /\ ppc' = "returned"
    /\ UNCHANGED <<fetchVars, buildVars, taskVars, shutdown, delivered, msgData, hpc, request, err, ociArtifactURL,
                   registryType, hbVars>>

\* The deferred function: set the terminal status, marshal, Produce, return.
PublishResult ==
    /\ hpc = "process"
    /\ ppc = "defer"
    /\ LET resp == IF err # NoErr
                   THEN [response EXCEPT !.FailureMessage = ErrorText(err),
                                         !.Status = TerminalStatus(err)]
                   ELSE [response EXCEPT !.Status = TerminalStatus(err)]
       IN  /\ response' = resp
           /\ IF MarshalErr(resp) # NoErr
              THEN /\ UNCHANGED produced
                   /\ hlog' = Append(hlog, [call |-> "return", ok |-> err = NoErr])
              ELSE \E ok \in BOOLEAN :
                      /\ produced' = Append(produced,
                             [key |-> <<"task-run-result", request.RunID>>,
                              msg |-> resp, ok |-> ok])
                      /\ hlog' = hlog \o << [call |-> "Produce", ok |-> ok],
                                            [call |-> "return", ok |-> err = NoErr] >>
    /\ ppc' = "returned"
    /\ UNCHANGED <<fetchVars, buildVars, taskVars, shutdown, delivered, msgData, hpc, request, err, ociArtifactURL, registryType,
                   hbVars>>

\* ------------------------------------------- after ProcessMessage returns
\* Mutant of StopTicker: the ticker is stopped only when ProcessMessage
\* returned nil.
StopTicker_OnlyOnSuccess ==
    /\ hpc = "process"
    /\ ppc = "returned"
    /\ IF err = NoErr
       THEN /\ ticker' = [ticker EXCEPT ![delivered] = "stopped"]
            /\ \E drained \in BOOLEAN :
                  tickC' = [tickC EXCEPT ![delivered] = IF drained THEN FALSE ELSE @]
            /\ hlog' = Append(hlog, [call |-> "Stop", ok |-> TRUE])
       ELSE UNCHANGED <<ticker, tickC, hlog>>
    /\ hpc' = "ack"
    /\ UNCHANGED <<fetchVars, buildVars, taskVars, shutdown, delivered, msgData, pmVars, renewals, hb, ticks, tickInPipeline>>

\* ticker.Stop(): no more ticks are sent.  A tick already in ticker.C stays
\* there with the buffered timer channels of Go before 1.23 and is discarded
\* with the synchronous ones since; both builds are covered.
StopTicker ==
    /\ hpc = "process"
    /\ ppc = "returned"
    /\ ticker' = [ticker EXCEPT ![delivered] = "stopped"]
    /\ \E drained \in BOOLEAN :
          tickC' = [tickC EXCEPT ![delivered] = IF drained THEN FALSE ELSE @]
    /\ hlog' = Append(hlog, [call |-> "Stop", ok |-> TRUE])
    /\ hpc' = "ack"
    /\ UNCHANGED <<fetchVars, buildVars, taskVars, shutdown, delivered, msgData, pmVars, renewals, hb, ticks, tickInPipeline>>

\* Mutant of Ack: the message is acknowledged only when ProcessMessage
\* returned nil.
Ack_OnlyOnSuccess ==
    /\ hpc = "ack"
    /\ IF err = NoErr
       THEN \E ok \in BOOLEAN : hlog' = Append(hlog, [call |-> "Ack", ok |-> ok])
       ELSE UNCHANGED hlog
    /\ hpc' = "idle"
    /\ UNCHANGED <<fetchVars, buildVars, taskVars, shutdown, delivered, msgData, pmVars, hbVars>>

\* if err := msg.Ack(); err != nil { log }
Ack ==
    /\ hpc = "ack"
    /\ \E ok \in BOOLEAN : hlog' = Append(hlog, [call |-> "Ack", ok |-> ok])
    /\ hpc' = "idle"
    /\ UNCHANGED <<fetchVars, buildVars, taskVars, shutdown, delivered, msgData, pmVars, hbVars>>

\* ------------------------------------------------------ the heartbeat
\* The runtime sends a tick on ticker.C (dropped when the channel is full).
Tick(m) ==
    /\ ticker[m] = "running"
    /\ ~tickC[m]
    /\ ticks < MaxTicks
    /\ tickC' = [tickC EXCEPT ![m] = TRUE]
    /\ ticks' = ticks + 1
    /\ tickInPipeline' = (tickInPipeline \/ Phase = "running")
    /\ UNCHANGED <<fetchVars, buildVars, taskVars, shutdown, delivered, msgData, hpc, hlog, pmVars, renewals, ticker, hb>>

\* for range ticker.C: the goroutine takes a tick.
HbReceive(m) ==
    /\ hb[m] = "wait"
    /\ tickC[m]
    /\ tickC' = [tickC EXCEPT ![m] = FALSE]
    /\ hb' = [hb EXCEPT ![m] = "renew"]
    /\ UNCHANGED <<fetchVars, buildVars, taskVars, shutdown, delivered, msgData, hpc, hlog, pmVars, renewals, ticker, ticks,
                   tickInPipeline>>

\* if err := msg.InProgress(); err != nil { log }; back to the range loop.
HbInProgress(m) ==
    /\ hb[m] = "renew"
    /\ \E ok \in BOOLEAN :
          renewals' = IF m = delivered
                      THEN [running |-> renewals.running \/ Phase = "running",
                            late    |-> IF Phase \in {"returned", "acked"}
                                        THEN Phase ELSE renewals.late,
                            failed  |-> renewals.failed \/ ~ok]
                      ELSE renewals
    /\ hb' = [hb EXCEPT ![m] = "wait"]
    /\ UNCHANGED <<fetchVars, buildVars, taskVars, shutdown, delivered, msgData, hpc, hlog, pmVars, ticker, tickC, ticks,
                   tickInPipeline>>

\* ------------------------------------------------------- specification
Next ==
    \/ Receive
    \/ InitialInProgress
    \/ NewTicker
    \/ GoHeartbeat
    \/ CallProcessMessage
    \/ Unmarshal
    \/ PublishProgress
    \/ ReadParams
    \/ FetchCredentials
    \/ WriteConfig
    \/ Pull
    \/ BuildArchive
    \/ Scan
    \/ PublishResult
    \/ StopTicker
    \/ Ack
    \/ \E m \in Msgs : Tick(m)
    \/ \E m \in Msgs : HbReceive(m)
    \/ \E m \in Msgs : HbInProgress(m)

Spec == Init /\ [][Next]_vars

\* The context handed to Run is cancelled: <-ctx.Done() returns, the consume
\* context is drained and stopped, and Run returns.  The callback that is
\* running goes on in its goroutine.
CancelContext ==
    /\ ~shutdown.done
    /\ delivered > 0
    /\ shutdown' = [ done |-> TRUE, job |-> IF hpc = "idle" THEN 0 ELSE delivered ]
    /\ UNCHANGED <<delivered, msgData, hpc, hlog, pmVars, hbVars, fetchVars, buildVars, taskVars>>

ShutdownNext == Next \/ CancelContext

\* The worker with its shutdown.
ShutdownSpec == Init /\ [][ShutdownNext]_vars

\* The heartbeat goroutines and the callback are goroutines the Go scheduler
\* runs whenever they can take a step.
FairSpec ==
    /\ Spec
    /\ \A m \in Msgs : WF_vars(HbReceive(m)) /\ WF_vars(HbInProgress(m))

\* =================================================== the credential resolver
\* fetchImage with the GHCR, ECR and ACR flows (task.sh), run on its own with
\* arguments drawn from small sets.  Secrets are sequences of bytes, so that
\* base64 is computed as encoding/base64 computes it; hosts, URLs and other
\* text are sequences of parts.

MaxLookups == 2     \* calls of the credential function during one pull

\* Mutant of EncodeGroup: a short last group is filled with zero digits
\* instead of padding.
EncodeGroup_ZeroFilled(g) ==
    IF Len(g) = 3
    THEN << g[1] \div 4,
            ((g[1] % 4) * 16) + (g[2] \div 16),
            ((g[2] % 16) * 4) + (g[3] \div 64),
            g[3] % 64 >>
    ELSE IF Len(g) = 2
    THEN << g[1] \div 4,
            ((g[1] % 4) * 16) + (g[2] \div 16),
            (g[2] % 16) * 4,
            0 >>
    ELSE << g[1] \div 4, (g[1] % 4) * 16, 0, 0 >>

\* base64.StdEncoding.EncodeToString: three bytes become four 6-bit digits; a
\* last group of one or two bytes is padded with '=' (written 64).
EncodeGroup(g) ==
    IF Len(g) = 3
    THEN << g[1] \div 4,
            ((g[1] % 4) * 16) + (g[2] \div 16),
            ((g[2] % 16) * 4) + (g[3] \div 64),
            g[3] % 64 >>
    ELSE IF Len(g) = 2
    THEN << g[1] \div 4,
            ((g[1] % 4) * 16) + (g[2] \div 16),
            (g[2] % 16) * 4,
            64 >>
    ELSE << g[1] \div 4, (g[1] % 4) * 16, 64, 64 >>

RECURSIVE EncodeToString(_)
EncodeToString(bs) ==
    IF bs = <<>> THEN <<>>
    ELSE IF Len(bs) <= 3 THEN EncodeGroup(bs)
    ELSE EncodeGroup(SubSeq(bs, 1, 3)) \o EncodeToString(SubSeq(bs, 4, Len(bs)))

\* base64.StdEncoding.DecodeString: the input is groups of four digits, with
\* padding only at the end of the last group.
DecodeGroup(q) ==
    IF q[3] = 64
    THEN << (q[1] * 4) + (q[2] \div 16) >>
    ELSE IF q[4] = 64
    THEN << (q[1] * 4) + (q[2] \div 16),
            ((q[2] % 16) * 16) + (q[3] \div 4) >>
    ELSE << (q[1] * 4) + (q[2] \div 16),
            ((q[2] % 16) * 16) + (q[3] \div 4),
            ((q[3] % 4) * 64) + q[4] >>

WellFormedBase64(s) ==
    /\ Len(s) % 4 = 0
    /\ \A i \in DOMAIN s :
          /\ s[i] \in 0..64
          /\ s[i] = 64 => /\ i >= Len(s) - 1
                          /\ i = Len(s) - 1 => s[Len(s)] = 64

RECURSIVE DecodeGroups(_)
DecodeGroups(s) ==
    IF s = <<>> THEN <<>>
    ELSE DecodeGroup(SubSeq(s, 1, 4)) \o DecodeGroups(SubSeq(s, 5, Len(s)))

DecodeString(s) ==
    IF WellFormedBase64(s)
    THEN [ bytes |-> DecodeGroups(s), err |-> NoErr ]
    ELSE [ bytes |-> <<>>, err |-> <<"illegal base64 data">> ]

\* Mutant of SplitN2: the cut is made at the last ':'.
SplitN2_LastColon(s) ==
    IF \E i \in DOMAIN s : s[i] = 58
    THEN LET i == CHOOSE k \in DOMAIN s :
                     s[k] = 58 /\ \A j \in DOMAIN s : s[j] = 58 => k >= j
         IN  << SubSeq(s, 1, i - 1), SubSeq(s, i + 1, Len(s)) >>
    ELSE << s >>

\* strings.SplitN(s, ":", 2): cut at the first ':' (byte 58), if there is one.
SplitN2(s) ==
    IF \E i \in DOMAIN s : s[i] = 58
    THEN LET i == CHOOSE k \in DOMAIN s :
                     s[k] = 58 /\ \A j \in DOMAIN s : s[j] = 58 => k <= j
         IN  << SubSeq(s, 1, i - 1), SubSeq(s, i + 1, Len(s)) >>
    ELSE << s >>

\* Mutant of TrimPrefix: the prefix is kept.
TrimPrefix_Keeps(s, prefix) == s

\* strings.TrimPrefix on a URL whose first part is its scheme.
TrimPrefix(s, prefix) ==
    IF Len(s) >= 1 /\ s[1] = prefix THEN Tail(s) ELSE s

\* for k, v := range src { dst[k] = v }
mergeAuths(dst, src) ==
    { d \in dst : ~ \E e \in src : e.host = d.host } \cup src

NoAuths(e) == [ auths |-> {}, err |-> e ]

\* Mutant of getGHCRAuth: only the username is required.
getGHCRAuth_UsernameOnly(username, token) ==
    IF username = <<>>
    THEN NoAuths(<<"GHCR requires --gh-username and --gh-token">>)
    ELSE [ auths |-> { [ host |-> <<"ghcr.io">>,
                         auth |-> EncodeToString(username \o <<58>> \o token) ] },
           err   |-> NoErr ]

getGHCRAuth(username, token) ==
    IF username = <<>> \/ token = <<>>
    THEN NoAuths(<<"GHCR requires --gh-username and --gh-token">>)
    ELSE [ auths |-> { [ host |-> <<"ghcr.io">>,
                         auth |-> EncodeToString(username \o <<58>> \o token) ] },
           err   |-> NoErr ]

\* getECRAuth, given what config.LoadDefaultConfig and GetAuthorizationToken
\* answer.
getECRAuth(accountID, region, loadErr, resp) ==
    IF accountID = <<>> \/ region = <<>>
    THEN NoAuths(<<"ECR requires --aws-account-id and --region">>)
    ELSE IF loadErr # NoErr
    THEN NoAuths(Wrap("failed to load AWS config: ", loadErr))
    ELSE IF resp.err # NoErr
    THEN NoAuths(Wrap("failed to get ECR auth token: ", resp.err))
    ELSE IF Len(resp.AuthorizationData) = 0 \/ ~resp.AuthorizationData[1].hasToken
    THEN NoAuths(<<"no authorization token received from ECR">>)
    ELSE LET authData == resp.AuthorizationData[1]
             decoded  == DecodeString(authData.AuthorizationToken)
         IN  IF decoded.err # NoErr
             THEN NoAuths(Wrap("failed to decode auth token: ", decoded.err))
             ELSE [ auths |-> { [ host |-> TrimPrefix(authData.ProxyEndpoint, "https://"),
                                  auth |-> EncodeToString(decoded.bytes) ] },
                    err   |-> NoErr ]

\* httpPostForm, given what the server answers: the body, or an error for a
\* failed round trip and for a status outside 200..299.
httpPostForm(urlStr, answer) ==
    IF answer.failed
    THEN [ body |-> answer.body, err |-> <<"POST ">> \o urlStr \o <<" failed: ", "timeout">> ]
    ELSE IF answer.status < 200 \/ answer.status > 299
    THEN [ body |-> answer.body, err |-> <<"non-2xx status: ", "status", " body: ", "body">> ]
    ELSE [ body |-> answer.body, err |-> NoErr ]

getACRRefreshToken(acrService, answer) ==
    LET post == httpPostForm(<<"https://">> \o acrService \o <<"/oauth2/exchange">>, answer)
    IN  IF post.err # NoErr THEN [ token |-> <<>>, err |-> post.err ]
        ELSE IF ~post.body.json
        THEN [ token |-> <<>>, err |-> <<"invalid exchange response: ", "json">> ]
        ELSE IF post.body.refresh_token.kind # "string" \/ post.body.refresh_token.val = <<>>
        THEN [ token |-> <<>>, err |-> <<"no refresh_token in ACR exchange response">> ]
        ELSE [ token |-> post.body.refresh_token.val, err |-> NoErr ]

getACRAccessToken(acrService, answer) ==
    LET post == httpPostForm(<<"https://">> \o acrService \o <<"/oauth2/token">>, answer)
    IN  IF post.err # NoErr THEN [ token |-> <<>>, err |-> post.err ]
        ELSE IF ~post.body.json
        THEN [ token |-> <<>>, err |-> <<"invalid token response: ", "json">> ]
        ELSE IF post.body.access_token.kind # "string" \/ post.body.access_token.val = <<>>
        THEN [ token |-> <<>>, err |-> <<"no access_token in response">> ]
        ELSE [ token |-> post.body.access_token.val, err |-> NoErr ]

\* "00000000-0000-0000-0000-000000000000:" as bytes ('0' is 48, '-' is 45).
ACRPlaceholder ==
    [ i \in 1..37 |-> IF i = 37 THEN 58 ELSE IF i \in {9, 14, 19, 24} THEN 45 ELSE 48 ]

\* Mutant of credentialsFunc: a host without an entry gets the credential of
\* some other entry when there is one.
credentialsFunc_AnyEntry(auths, host) ==
    IF auths # {}
    THEN LET a       == IF \E x \in auths : x.host = host
                        THEN CHOOSE x \in auths : x.host = host
                        ELSE CHOOSE x \in auths : TRUE
             decoded == DecodeString(a.auth)
             parts   == SplitN2(decoded.bytes)
         IN  IF decoded.err # NoErr
             THEN [ host |-> host, Username |-> <<>>, Password |-> <<>>, err |-> decoded.err ]
             ELSE IF Len(parts) # 2
             THEN [ host |-> host, Username |-> <<>>, Password |-> <<>>,
                    err |-> <<"invalid auth format for ">> \o host ]
             ELSE [ host |-> host, Username |-> parts[1], Password |-> parts[2],
                    err |-> NoErr ]
    ELSE [ host |-> host, Username |-> <<>>, Password |-> <<>>,
           err |-> <<"no credentials for host ">> \o host ]

\* The credential function handed to the auth client of the pull.
credentialsFunc(auths, host) ==
    IF \E a \in auths : a.host = host
    THEN LET a       == CHOOSE x \in auths : x.host = host
             decoded == DecodeString(a.auth)
             parts   == SplitN2(decoded.bytes)
         IN  IF decoded.err # NoErr
             THEN [ host |-> host, Username |-> <<>>, Password |-> <<>>, err |-> decoded.err ]
             ELSE IF Len(parts) # 2
             THEN [ host |-> host, Username |-> <<>>, Password |-> <<>>,
                    err |-> <<"invalid auth format for ">> \o host ]
             ELSE [ host |-> host, Username |-> parts[1], Password |-> parts[2],
                    err |-> NoErr ]
    ELSE [ host |-> host, Username |-> <<>>, Password |-> <<>>,
           err |-> <<"no credentials for host ">> \o host ]

\* ------------------------------------------------------- resolver inputs
Usernames == { <<>>, <<117>>, <<117, 115>>, <<117, 58, 118>> }
Tokens == { <<>>, <<116>>, <<116, 58, 107>> }
RegistryKinds == { "ghcr", "ecr", "acr", "GHCR", "dockerhub", "" }
ECRHost == <<"1234.dkr.ecr.eu-west-1.amazonaws.com">>
ACRHost == <<"example.azurecr.io">>

CredentialInputs ==
    [ GithubUsername : Usernames, GithubToken : Tokens,
      ECRAccountID : { <<>>, <<"1234">> }, ECRRegion : { <<>>, <<"eu-west-1">> },
      ACRLoginServer : { <<>>, ACRHost }, ACRTenantID : { <<>>, <<"tenant">> } ]

FetchInputs ==
    [ registryType : RegistryKinds, output : { "", "creds.json" },
      ociArtifactURI : { "", ArtifactURL }, creds : CredentialInputs ]

\* What GetAuthorizationToken answers: an error, no authorization data, data
\* without a token, or a token ("AWS:p", "AWS:pq", or text that is not base64)
\* with the registry's proxy endpoint.
ECRAnswers ==
    { [ err |-> <<"AccessDeniedException">>, AuthorizationData |-> <<>> ],
      [ err |-> NoErr, AuthorizationData |-> <<>> ],
      [ err |-> NoErr,
        AuthorizationData |-> << [ hasToken |-> FALSE, AuthorizationToken |-> <<>>,
                                   ProxyEndpoint |-> <<"https://">> \o ECRHost ] >> ] }
    \cup { [ err |-> NoErr,
             AuthorizationData |-> << [ hasToken |-> TRUE, AuthorizationToken |-> t,
                                        ProxyEndpoint |-> <<"https://">> \o ECRHost ] >> ] :
           t \in { EncodeToString(<<65, 87, 83, 58, 112>>),
                   EncodeToString(<<65, 87, 83, 58, 112, 113>>),
                   <<16, 21, 18>> } }

LoadConfigOutcomes == { NoErr, <<"invalid configuration">> }

\* A JSON value of a token field: absent, not a string, or a string.
TokenValues ==
    { [ kind |-> "absent", val |-> <<>> ], [ kind |-> "number", val |-> <<>> ],
      [ kind |-> "string", val |-> <<>> ],
      [ kind |-> "string", val |-> <<114>> ], [ kind |-> "string", val |-> <<114, 50>> ] }

HTTPBodies ==
    { [ json |-> FALSE, refresh_token |-> [ kind |-> "absent", val |-> <<>> ],
        access_token |-> [ kind |-> "absent", val |-> <<>> ] ] }
    \cup { [ json |-> TRUE, refresh_token |-> v,
             access_token |-> [ kind |-> "absent", val |-> <<>> ] ] : v \in TokenValues }
    \cup { [ json |-> TRUE, refresh_token |-> [ kind |-> "absent", val |-> <<>> ],
             access_token |-> v ] : v \in TokenValues }

HTTPAnswers ==
    [ failed : {FALSE}, status : { 199, 200, 299, 300 }, body : HTTPBodies ]
    \cup [ failed : {TRUE}, status : {0}, body : { CHOOSE b \in HTTPBodies : ~b.json } ]

AADOutcomes ==
    { [ token |-> <<>>, err |-> <<"failed to get default azure credential: ", "env">> ],
      [ token |-> <<>>, err |-> <<"failed to get AAD token: ", "denied">> ],
      [ token |-> <<100>>, err |-> NoErr ] }

LookupHosts == { <<"ghcr.io">>, ECRHost, ACRHost, <<"docker.io">> }

\* An entry of fCalls: the call, what was sent, and what came back.
NoAnswer == [ err |-> NoErr ]
ExternalCall(c, a) == [ call |-> c, url |-> <<>>, grant |-> "", token |-> <<>>, answer |-> a ]
PostCall(u, g, t, a) == [ call |-> "POST", url |-> u, grant |-> g, token |-> t, answer |-> a ]

\* fetchImage is called with some arguments.
FetchStart ==
    /\ fpc = "switch"
    /\ fin \in FetchInputs
    /\ cfgAuths = {}
    /\ fErr = NoErr
    /\ fCalls = <<>>
    /\ fLocals = NoLocals
    /\ fLookup = <<>>

FetchInit == WorkerIdle /\ FetchStart /\ BuildIdle /\ TaskIdle

workerVars == <<delivered, msgData, hpc, hlog, pmVars, hbVars, shutdown>>

\* ------------------------------------------------------ resolver actions
\* case RegistryGHCR
FetchGHCR ==
    /\ fpc = "switch"
    /\ fin.registryType = "ghcr"
    /\ LET r == getGHCRAuth(fin.creds.GithubUsername, fin.creds.GithubToken)
       IN  IF r.err # NoErr
           THEN /\ fErr' = Wrap("GHCR error: ", r.err)
                /\ fpc' = "done"
                /\ UNCHANGED cfgAuths
           ELSE /\ cfgAuths' = mergeAuths(cfgAuths, r.auths)
                /\ fpc' = "write"
                /\ UNCHANGED fErr
    /\ UNCHANGED <<workerVars, buildVars, taskVars, fin, fCalls, fLocals, fLookup>>

\* case RegistryECR
FetchECR ==
    /\ fpc = "switch"
    /\ fin.registryType = "ecr"
    /\ \E loadErr \in LoadConfigOutcomes, resp \in ECRAnswers :
          LET r == getECRAuth(fin.creds.ECRAccountID, fin.creds.ECRRegion, loadErr, resp)
              validated == fin.creds.ECRAccountID # <<>> /\ fin.creds.ECRRegion # <<>>
          IN  /\ fCalls' = fCalls
                     \o (IF validated
                         THEN << ExternalCall("LoadDefaultConfig", [ err |-> loadErr ]) >>
                         ELSE <<>>)
                     \o (IF validated /\ loadErr = NoErr
                         THEN << ExternalCall("GetAuthorizationToken", resp) >> ELSE <<>>)
              /\ IF r.err # NoErr
                 THEN /\ fErr' = Wrap("ECR error: ", r.err)
                      /\ fpc' = "done"
                      /\ UNCHANGED cfgAuths
                 ELSE /\ cfgAuths' = mergeAuths(cfgAuths, r.auths)
                      /\ fpc' = "write"
                      /\ UNCHANGED fErr
    /\ UNCHANGED <<workerVars, buildVars, taskVars, fin, fLocals, fLookup>>

\* case RegistryACR, getACRAuth up to the AAD token.
FetchACR ==
    /\ fpc = "switch"
    /\ fin.registryType = "acr"
    /\ IF fin.creds.ACRLoginServer = <<>> \/ fin.creds.ACRTenantID = <<>>
       THEN /\ fErr' = Wrap("ACR error: ",
                            <<"ACR requires --acr-login-server and --acr-tenant-id">>)
            /\ fpc' = "done"
            /\ UNCHANGED <<fCalls, fLocals>>
       ELSE \E aad \in AADOutcomes :
               /\ fCalls' = Append(fCalls, ExternalCall("GetToken", aad))
               /\ IF aad.err # NoErr
                  THEN /\ fErr' = Wrap("ACR error: ", aad.err)
                       /\ fpc' = "done"
                       /\ UNCHANGED fLocals
                  ELSE /\ fLocals' = [fLocals EXCEPT !.aadToken = aad.token]
                       /\ fpc' = "acr-refresh"
                       /\ UNCHANGED fErr
    /\ UNCHANGED <<workerVars, buildVars, taskVars, fin, cfgAuths, fLookup>>

\* getACRAuth: getACRRefreshToken, the grant_type=access_token exchange.
ACRRefreshExchange ==
    /\ fpc = "acr-refresh"
    /\ \E answer \in HTTPAnswers :
          LET r == getACRRefreshToken(fin.creds.ACRLoginServer, answer)
          IN  /\ fCalls' = Append(fCalls,
                     PostCall(<<"https://">> \o fin.creds.ACRLoginServer \o <<"/oauth2/exchange">>,
                              "access_token", fLocals.aadToken, answer))
              /\ IF r.err # NoErr
                 THEN /\ fErr' = Wrap("ACR error: ",
                                      Wrap("failed to get ACR refresh token: ", r.err))
                      /\ fpc' = "done"
                      /\ UNCHANGED fLocals
                 ELSE /\ fLocals' = [fLocals EXCEPT !.refreshToken = r.token]
                      /\ fpc' = "acr-access"
                      /\ UNCHANGED fErr
    /\ UNCHANGED <<workerVars, buildVars, taskVars, fin, cfgAuths, fLookup>>

\* Mutant of ACRAccessExchange: the second exchange sends the AAD token.
ACRAccessExchange_SendsAADToken ==
    /\ fpc = "acr-access"
    /\ \E answer \in HTTPAnswers :
          LET r == getACRAccessToken(fin.creds.ACRLoginServer, answer)
          IN  /\ fCalls' = Append(fCalls,
                     PostCall(<<"https://">> \o fin.creds.ACRLoginServer \o <<"/oauth2/token">>,
                              "refresh_token", fLocals.aadToken, answer))
              /\ IF r.err # NoErr
                 THEN /\ fErr' = Wrap("ACR error: ",
                                      Wrap("failed to get ACR access token: ", r.err))
                      /\ fpc' = "done"
                      /\ UNCHANGED cfgAuths
                 ELSE /\ cfgAuths' = mergeAuths(cfgAuths,
                            { [ host |-> fin.creds.ACRLoginServer,
                                auth |-> EncodeToString(ACRPlaceholder \o r.token) ] })
                      /\ fpc' = "write"
                      /\ UNCHANGED fErr
    /\ UNCHANGED <<workerVars, buildVars, taskVars, fin, fLocals, fLookup>>

\* getACRAuth: getACRAccessToken, the grant_type=refresh_token exchange, and
\* the entry for the login server.
ACRAccessExchange ==
    /\ fpc = "acr-access"
    /\ \E answer \in HTTPAnswers :
          LET r == getACRAccessToken(fin.creds.ACRLoginServer, answer)
          IN  /\ fCalls' = Append(fCalls,
                     PostCall(<<"https://">> \o fin.creds.ACRLoginServer \o <<"/oauth2/token">>,
                              "refresh_token", fLocals.refreshToken, answer))
              /\ IF r.err # NoErr
                 THEN /\ fErr' = Wrap("ACR error: ",
                                      Wrap("failed to get ACR access token: ", r.err))
                      /\ fpc' = "done"
                      /\ UNCHANGED cfgAuths
                 ELSE /\ cfgAuths' = mergeAuths(cfgAuths,
                            { [ host |-> fin.creds.ACRLoginServer,
                                auth |-> EncodeToString(ACRPlaceholder \o r.token) ] })
                      /\ fpc' = "write"
                      /\ UNCHANGED fErr
    /\ UNCHANGED <<workerVars, buildVars, taskVars, fin, fLocals, fLookup>>

\* Mutant of FetchUnsupported: an unknown kind is pulled without credentials.
FetchUnsupported_Anonymous ==
    /\ fpc = "switch"
    /\ fin.registryType \notin { "ghcr", "ecr", "acr" }
    /\ fpc' = "write"
    /\ UNCHANGED <<workerVars, buildVars, taskVars, fin, cfgAuths, fErr, fCalls, fLocals, fLookup>>

\* default: the registry kind is none of the three.
FetchUnsupported ==
    /\ fpc = "switch"
    /\ fin.registryType \notin { "ghcr", "ecr", "acr" }
    /\ fErr' = <<"Unsupported registry type: ", fin.registryType>>
    /\ fpc' = "done"
    /\ UNCHANGED <<workerVars, buildVars, taskVars, fin, cfgAuths, fCalls, fLocals, fLookup>>

\* The docker config is marshalled and printed or written to the output
\* path; then the pull starts if there is an artifact to pull.
FetchWriteConfig ==
    /\ fpc = "write"
    /\ \E e \in WriteConfigOutcomes :
          /\ fin.output = "" => e = NoErr
          /\ fCalls' = IF fin.output = "" THEN fCalls
                       ELSE IF e = <<"Error creating directory for output file: ", "mkdir">>
                       THEN Append(fCalls, ExternalCall("MkdirAll", [ err |-> e ]))
                       ELSE fCalls \o << ExternalCall("MkdirAll", NoAnswer),
                                         ExternalCall("WriteFile", [ err |-> e ]) >>
          /\ IF e # NoErr
             THEN fErr' = e /\ fpc' = "done"
             ELSE /\ UNCHANGED fErr
                  /\ fpc' = IF fin.ociArtifactURI # "" THEN "pull" ELSE "done"
    /\ UNCHANGED <<workerVars, buildVars, taskVars, fin, cfgAuths, fLocals, fLookup>>

\* pullAndCreateDockerArchive: the auth client asks the credential function
\* for a host's credential.
CredentialLookup ==
    /\ fpc = "pull"
    /\ Len(fLookup) < MaxLookups
    /\ \E host \in LookupHosts : fLookup' = Append(fLookup, credentialsFunc(cfgAuths, host))
    /\ UNCHANGED <<workerVars, buildVars, taskVars, fpc, fin, cfgAuths, fErr, fCalls, fLocals>>

\* pullAndCreateDockerArchive returns; fetchImage wraps its error.
FetchPullReturn ==
    /\ fpc = "pull"
    /\ \E e \in PullOutcomes \cup BuildOutcomes :
          /\ fErr' = IF e # NoErr
                     THEN <<"Failed to process ", fin.ociArtifactURI, ": ">> \o ErrorText(e)
                     ELSE NoErr
          /\ fCalls' = Append(fCalls, ExternalCall("pull", [ err |-> e ]))
    /\ fpc' = "done"
    /\ UNCHANGED <<workerVars, buildVars, taskVars, fin, cfgAuths, fLocals, fLookup>>

FetchNext ==
    \/ FetchGHCR
    \/ FetchECR
    \/ FetchACR
    \/ ACRRefreshExchange
    \/ ACRAccessExchange
    \/ FetchUnsupported
    \/ FetchWriteConfig
    \/ CredentialLookup
    \/ FetchPullReturn

FetchSpec == FetchInit /\ [][FetchNext]_vars

\* ========================================================= the archive build
\* fetchImage and pullAndCreateDockerArchive of the worker
\* (src/worker/fetch-image.go), run for a sequence of jobs of one process:
\* the working directory and the package-level memoryStore are what one job
\* leaves to the next.

MaxJobs == 2

AllowedMediaTypes ==
    { "application/vnd.oci.descriptor.v1+json",
      "application/vnd.oci.layout.header.v1+json",
      "application/vnd.oci.image.index.v1+json",
      "application/vnd.oci.image.manifest.v1+json",
      "application/vnd.oci.image.config.v1+json",
      "application/vnd.oci.image.layer.v1.tar",
      "application/vnd.oci.image.layer.v1.tar+gzip",
      "application/vnd.oci.image.layer.v1.tar+zstd",
      "application/vnd.oci.empty.v1+json",
      "application/vnd.oci.image.layer.nondistributable.v1.tar",
      "application/vnd.oci.image.layer.nondistributable.v1.tar+gzip",
      "application/vnd.oci.image.layer.nondistributable.v1.tar+zstd",
      "application/vnd.docker.distribution.manifest.v2+json",
      "application/vnd.docker.image.rootfs.diff.tar.gzip",
      "application/vnd.docker.container.image.v1+json" }

isAllowedMediaType(mt) == mt \in AllowedMediaTypes

\* validateOCIMediaTypes returns nil.
validateOCIMediaTypes(m) ==
    /\ isAllowedMediaType(m.Config.MediaType)
    /\ \A i \in 1..Len(m.Layers) : isAllowedMediaType(m.Layers[i].MediaType)

\* Descriptors a registry can serve: an image config and image layers, and
\* the config and content layer of a Helm chart stored as an OCI artifact.
ImageConfig == [ MediaType |-> "application/vnd.oci.image.config.v1+json", Digest |-> "sha256:c0" ]
ChartConfig == [ MediaType |-> "application/vnd.cncf.helm.config.v1+json", Digest |-> "sha256:c1" ]
LayerA == [ MediaType |-> "application/vnd.oci.image.layer.v1.tar+gzip", Digest |-> "sha256:a1" ]
LayerB == [ MediaType |-> "application/vnd.docker.image.rootfs.diff.tar.gzip", Digest |-> "sha256:b2" ]
ChartLayer == [ MediaType |-> "application/vnd.cncf.helm.chart.content.v1.tar+gzip", Digest |-> "sha256:e3" ]

\* The manifests the reference can resolve to, each with its own digest.
Manifests ==
    { [ Digest |-> "sha256:m0", Config |-> ImageConfig, Layers |-> << >> ],
      [ Digest |-> "sha256:m1", Config |-> ImageConfig, Layers |-> << LayerA >> ],
      [ Digest |-> "sha256:m2", Config |-> ImageConfig, Layers |-> << LayerA, LayerB >> ],
      [ Digest |-> "sha256:m3", Config |-> ImageConfig, Layers |-> << LayerB, LayerA >> ],
      [ Digest |-> "sha256:m4", Config |-> ChartConfig, Layers |-> << ChartLayer >> ],
      [ Digest |-> "sha256:m5", Config |-> ImageConfig, Layers |-> << LayerA, ChartLayer >> ] }

\* What oras.Copy puts into the store for a manifest: the manifest itself
\* and its successors.
Blobs(m) ==
    { m.Digest, m.Config.Digest } \cup { m.Layers[i].Digest : i \in 1..Len(m.Layers) }

\* The artifact reference as its parts: a tag reference, a digest reference,
\* and a string without a repository.
ArtifactURIs ==
    { << "ghcr.io", "/", "example/app", ":", "v1.0" >>,
      << "ghcr.io", "/", "example/app", "@", "sha256:m1" >>,
      << "app" >> }

\* registry.ParseReference: registry up to the first "/", then the
\* repository, then a tag after ":" or a digest after "@".
ParseReference(uri) ==
    IF Len(uri) = 5 /\ uri[2] = "/" /\ uri[4] \in { ":", "@" }
    THEN [ ok |-> TRUE, Registry |-> uri[1], Repository |-> uri[3], Reference |-> uri[5] ]
    ELSE [ ok |-> FALSE, Registry |-> "", Repository |-> "", Reference |-> "" ]

\* A reference that is a digest ("algorithm:hex").
IsDigest(reference) == reference \in { m.Digest : m \in Manifests }

\* Reference.String(): registry/repository, then "@digest" or ":tag".
RefString(ref) ==
    << ref.Registry, "/", ref.Repository,
       IF IsDigest(ref.Reference) THEN "@" ELSE ":", ref.Reference >>

\* File contents.
Blob(d) == [ type |-> "blob", digest |-> d ]
DockerConfigFile == [ type |-> "docker-config", auths |-> { "ghcr.io" } ]
OCIManifestFile(m) == [ type |-> "oci-manifest", manifest |-> m ]
TarFile(members) == [ type |-> "tar", members |-> members ]

\* append on a slice: the result is never nil.
AppendSlice(s, x) == [ nil |-> FALSE, elems |-> Append(s.elems, x) ]

\* encoding/json on a slice: a nil slice is written as null, any other as
\* an array.
MarshalSlice(s) ==
    IF s.nil THEN [ json |-> "null" ] ELSE [ json |-> "array", elems |-> s.elems ]

\* The dockerManifest value as it is marshalled into manifest.json.
DockerManifestFile(ref, lf) ==
    [ type |-> "docker-manifest",
      entries |-> << [ Config |-> "config.json",
                       RepoTags |-> [ json |-> "array", elems |-> << RefString(ref) >> ],
                       Layers |-> MarshalSlice(lf) ] >> ]

\* Mutant of FilesToTar: the configuration goes first.
FilesToTar_ConfigFirst(lf) ==
    << "config.json", "manifest.json", "oci-manifest.json" >> \o lf.elems

\* filesToTar := append([]string{manifest.json, config.json, oci-manifest.json}, layerFiles...)
FilesToTar(lf) ==
    << "manifest.json", "config.json", "oci-manifest.json" >> \o lf.elems

BuildInputs ==
    [ registryType : { "ghcr", "ecr" },
      credsOK : BOOLEAN,
      ociArtifactURI : ArtifactURIs ]

BuildInit == WorkerIdle /\ FetchIdle /\ BuildIdle /\ TaskIdle

otherVars == <<workerVars, fetchVars, taskVars>>

\* ProcessMessage calls fetchImage for the next job.
BuildStart ==
    /\ bpc \in { "idle", "returned" }
    /\ bjob < MaxJobs
    /\ \E i \in BuildInputs : bin' = i
    /\ bjob' = bjob + 1
    /\ bpc' = "switch"
    /\ bErr' = NoErr
    /\ bref' = NoRef
    /\ manifest' = NoManifest
    /\ layerFiles' = NilSlice
    /\ tarPos' = 0
    /\ bwritten' = {}
    /\ bclean' = (wd = EmptyDir)
    /\ UNCHANGED <<otherVars, wd, memoryStore, builds>>

\* The registry switch: ghcr with its credentials, anything else refused.
BuildResolve ==
    /\ bpc = "switch"
    /\ IF bin.registryType # "ghcr"
       THEN bErr' = << "Unsupported registry type: ", bin.registryType >> /\ bpc' = "ret"
       ELSE IF ~bin.credsOK
            THEN bErr' = << "GHCR error: " >> /\ bpc' = "ret"
            ELSE bErr' = NoErr /\ bpc' = "output"
    /\ UNCHANGED <<otherVars, bjob, bin, wd, memoryStore, bref, manifest, layerFiles,
                   tarPos, bwritten, bclean, builds>>

\* The credentials are written to the output path, which the worker gives as
\* ./image.tar.
BuildWriteCredentials ==
    /\ bpc = "output"
    /\ wd' = [wd EXCEPT !["image.tar"] = DockerConfigFile]
    /\ bwritten' = bwritten \cup { "image.tar" }
    /\ bpc' = "parse"
    /\ UNCHANGED <<otherVars, bjob, bin, memoryStore, bErr, bref, manifest, layerFiles,
                   tarPos, bclean, builds>>

\* pullAndCreateDockerArchive: registry.ParseReference.
BuildParseReference ==
    /\ bpc = "parse"
    /\ LET r == ParseReference(bin.ociArtifactURI)
       IN  IF r.ok
           THEN bref' = r /\ bpc' = "copy" /\ UNCHANGED bErr
           ELSE bErr' = << "invalid oci-artifact-uri" >> /\ bpc' = "ret" /\ UNCHANGED bref
    /\ UNCHANGED <<otherVars, bjob, bin, wd, memoryStore, manifest, layerFiles,
                   tarPos, bwritten, bclean, builds>>

\* oras.Copy into memoryStore.  A digest reference resolves to the manifest
\* of that digest; a tag to whatever the registry has under it.  A failed
\* copy is one that fails on resolving the reference.
BuildCopy ==
    /\ bpc = "copy"
    /\ \E ok \in BOOLEAN, m \in Manifests :
          /\ IsDigest(bref.Reference) => m.Digest = bref.Reference
          /\ IF ok
             THEN /\ memoryStore' = memoryStore \cup Blobs(m)
                  /\ manifest' = m
                  /\ bpc' = "ocimanifest"
                  /\ UNCHANGED bErr
             ELSE /\ bErr' = << "oras pull failed" >>
                  /\ bpc' = "ret"
                  /\ UNCHANGED <<memoryStore, manifest>>
    /\ UNCHANGED <<otherVars, bjob, bin, wd, bref, layerFiles, tarPos, bwritten,
                   bclean, builds>>

\* The manifest is fetched from the store and written out as
\* oci-manifest.json.
BuildWriteOCIManifest ==
    /\ bpc = "ocimanifest"
    /\ manifest.Digest \in memoryStore
    /\ wd' = [wd EXCEPT !["oci-manifest.json"] = OCIManifestFile(manifest)]
    /\ bwritten' = bwritten \cup { "oci-manifest.json" }
    /\ bpc' = "validate"
    /\ UNCHANGED <<otherVars, bjob, bin, memoryStore, bErr, bref, manifest, layerFiles,
                   tarPos, bclean, builds>>

\* The manifest is decoded and its media types are validated.
BuildValidate ==
    /\ bpc = "validate"
    /\ IF validateOCIMediaTypes(manifest)
       THEN bpc' = "config" /\ UNCHANGED bErr
       ELSE bErr' = << "media type validation failed" >> /\ bpc' = "ret"
    /\ UNCHANGED <<otherVars, bjob, bin, wd, memoryStore, bref, manifest, layerFiles,
                   tarPos, bwritten, bclean, builds>>

\* The config blob is fetched from the store and written as config.json.
BuildWriteConfig ==
    /\ bpc = "config"
    /\ manifest.Config.Digest \in memoryStore
    /\ wd' = [wd EXCEPT !["config.json"] = Blob(manifest.Config.Digest)]
    /\ bwritten' = bwritten \cup { "config.json" }
    /\ layerFiles' = NilSlice
    /\ bpc' = "layers"
    /\ UNCHANGED <<otherVars, bjob, bin, memoryStore, bErr, bref, manifest, tarPos,
                   bclean, builds>>

\* Mutant of BuildWriteLayer: a layer file that is already in the working
\* directory is kept as it is.
BuildWriteLayer_KeepsExisting ==
    /\ bpc = "layers"
    /\ Len(layerFiles.elems) < Len(manifest.Layers)
    /\ LET k == Len(layerFiles.elems) + 1
           layerFileName == LayerFileName(k)
       IN  /\ manifest.Layers[k].Digest \in memoryStore
           /\ wd' = IF wd[layerFileName] = Absent
                    THEN [wd EXCEPT ![layerFileName] = Blob(manifest.Layers[k].Digest)]
                    ELSE wd
           /\ bwritten' = bwritten \cup { layerFileName }
           /\ layerFiles' = AppendSlice(layerFiles, layerFileName)
    /\ UNCHANGED <<otherVars, bpc, bjob, bin, memoryStore, bErr, bref, manifest, tarPos,
                   bclean, builds>>

\* One round of the layer loop.
BuildWriteLayer ==
    /\ bpc = "layers"
    /\ Len(layerFiles.elems) < Len(manifest.Layers)
    /\ LET k == Len(layerFiles.elems) + 1
           layerFileName == LayerFileName(k)
       IN  /\ manifest.Layers[k].Digest \in memoryStore
           /\ wd' = [wd EXCEPT ![layerFileName] = Blob(manifest.Layers[k].Digest)]
           /\ bwritten' = bwritten \cup { layerFileName }
           /\ layerFiles' = AppendSlice(layerFiles, layerFileName)
    /\ UNCHANGED <<otherVars, bpc, bjob, bin, memoryStore, bErr, bref, manifest, tarPos,
                   bclean, builds>>

\* The Docker-style manifest is marshalled and written as manifest.json.
BuildWriteDockerManifest ==
    /\ bpc = "layers"
    /\ Len(layerFiles.elems) = Len(manifest.Layers)
    /\ wd' = [wd EXCEPT !["manifest.json"] = DockerManifestFile(bref, layerFiles)]
    /\ bwritten' = bwritten \cup { "manifest.json" }
    /\ bpc' = "tar"
    /\ UNCHANGED <<otherVars, bjob, bin, memoryStore, bErr, bref, manifest, layerFiles,
                   tarPos, bclean, builds>>

\* createTar: os.Create truncates image.tar.
BuildCreateTar ==
    /\ bpc = "tar"
    /\ wd' = [wd EXCEPT !["image.tar"] = TarFile(<< >>)]
    /\ bwritten' = bwritten \cup { "image.tar" }
    /\ tarPos' = 1
    /\ bpc' = "tarloop"
    /\ UNCHANGED <<otherVars, bjob, bin, memoryStore, bErr, bref, manifest, layerFiles,
                   bclean, builds>>

\* Mutant of BuildTarMember: the files are taken in no fixed order, as when
\* they are kept in a map.
BuildTarMember_AnyOrder ==
    /\ bpc = "tarloop"
    /\ LET files == FilesToTar(layerFiles)
           done == { wd["image.tar"].members[i].name :
                        i \in 1..Len(wd["image.tar"].members) }
       IN  /\ tarPos <= Len(files)
           /\ \E j \in 1..Len(files) :
                 /\ files[j] \notin done
                 /\ wd' = [wd EXCEPT !["image.tar"] =
                             TarFile(Append(@.members,
                                 [ name |-> files[j], content |-> wd[files[j]] ]))]
           /\ tarPos' = tarPos + 1
           /\ UNCHANGED <<bpc, bErr>>
    /\ UNCHANGED <<otherVars, bjob, bin, memoryStore, bref, manifest, layerFiles,
                   bwritten, bclean, builds>>

\* One round of createTar's loop: the file's header and data are added, or
\* the round fails and what was written so far stays.
BuildTarMember ==
    /\ bpc = "tarloop"
    /\ LET files == FilesToTar(layerFiles)
       IN  /\ tarPos <= Len(files)
           /\ \E ok \in BOOLEAN :
                 IF ok /\ wd[files[tarPos]] # Absent
                 THEN /\ wd' = [wd EXCEPT !["image.tar"] =
                                  TarFile(Append(@.members,
                                      [ name |-> files[tarPos],
                                        content |-> wd[files[tarPos]] ]))]
                      /\ tarPos' = tarPos + 1
                      /\ UNCHANGED <<bpc, bErr>>
                 ELSE /\ bErr' = << "failed to create tar" >>
                      /\ bpc' = "ret"
                      /\ UNCHANGED <<wd, tarPos>>
    /\ UNCHANGED <<otherVars, bjob, bin, memoryStore, bref, manifest, layerFiles,
                   bwritten, bclean, builds>>

\* createTar returned nil: manifest.json and oci-manifest.json are removed.
BuildRemove ==
    /\ bpc = "tarloop"
    /\ tarPos > Len(FilesToTar(layerFiles))
    /\ wd' = [wd EXCEPT !["manifest.json"] = Absent, !["oci-manifest.json"] = Absent]
    /\ bpc' = "ret"
    /\ UNCHANGED <<otherVars, bjob, bin, memoryStore, bErr, bref, manifest, layerFiles,
                   tarPos, bwritten, bclean, builds>>

\* fetchImage returns to ProcessMessage.
BuildReturn ==
    /\ bpc = "ret"
    /\ bpc' = "returned"
    /\ builds' = Append(builds,
          [ ociArtifactURI |-> bin.ociArtifactURI,
            manifest |-> manifest,
            clean |-> bclean,
            ok |-> bErr = NoErr,
            archive |-> wd["image.tar"] ])
    /\ UNCHANGED <<otherVars, bjob, bin, wd, memoryStore, bErr, bref, manifest,
                   layerFiles, tarPos, bwritten, bclean>>

\* The process is started again: memoryStore is a package variable and is
\* made anew; the working directory is the same one or a fresh one.
Restart ==
    /\ bpc = "returned"
    /\ bjob < MaxJobs
    /\ memoryStore' = {}
    /\ \E d \in { wd, EmptyDir } : wd' = d
    /\ bpc' = "idle"
    /\ UNCHANGED <<otherVars, bjob, bin, bErr, bref, manifest, layerFiles, tarPos,
                   bwritten, bclean, builds>>

BuildNext ==
    \/ BuildStart
    \/ BuildResolve
    \/ BuildWriteCredentials
    \/ BuildParseReference
    \/ BuildCopy
    \/ BuildWriteOCIManifest
    \/ BuildValidate
    \/ BuildWriteConfig
    \/ BuildWriteLayer
    \/ BuildWriteDockerManifest
    \/ BuildCreateTar
    \/ BuildTarMember
    \/ BuildRemove
    \/ BuildReturn
    \/ Restart

BuildSpec == BuildInit /\ [][BuildNext]_vars

\* ==================================================== the multi-artifact task
\* RunTask over the list of oci_artifact_url values (package task): for each
\* artifact fetch, list the files, scan, store the result.  fetchImage,
\* showFiles, grype and the index request either succeed or fail.

MaxArtifacts == 2

ArtifactURLValues == { ArtifactURL, "ghcr.io/example/db:v2.0" }
ArtifactDigestValues == { "sha256:d1", "sha256:d2" }

\* The values of a parameter: a list of strings, empty when the key is absent.
ListsUpTo(S, n) == UNION { [1..k -> S] : k \in 0..n }

TaskParams ==
    [ oci_artifact_url : ListsUpTo(ArtifactURLValues, MaxArtifacts),
      artifact_digest : ListsUpTo(ArtifactDigestValues, MaxArtifacts),
      registry_type : { << >>, << "ecr" >> } ]

\* RunTask is called with some parameters.
TaskStart ==
    /\ tpc = "check"
    /\ tparams \in TaskParams
    /\ ti = 0
    /\ tlocals = NoTaskLocals
    /\ tcalls = << >>
    /\ tErr = NoErr
    /\ tResult = NoResult
    /\ tstored = << >>
    /\ tids = << >>

TaskInit == WorkerIdle /\ FetchIdle /\ BuildIdle /\ TaskStart

\* es.HashOf(keys...) of a result whose UniqueID is its ImageURL.
HashOf(url) == << "hash", url >>

\* An entry of tcalls.
TaskCall(c, ok) ==
    [ call |-> c, i |-> ti, url |-> tlocals.artifactUrl,
      digest |-> tlocals.artifactDigest, registryType |-> tlocals.registryType, ok |-> ok ]

\* The parameter checks before the loop.
TaskCheckParams ==
    /\ tpc = "check"
    /\ IF Len(tparams.oci_artifact_url) = 0
       THEN /\ tErr' = << "OCI artifact url parameter is not provided" >>
            /\ tpc' = "returned"
            /\ UNCHANGED tlocals
       ELSE IF Len(tparams.artifact_digest) = 0
       THEN /\ tErr' = << "OCI artifact digest parameter is not provided" >>
            /\ tpc' = "returned"
            /\ tlocals' = [tlocals EXCEPT !.registryType =
                              IF Len(tparams.registry_type) > 0
                              THEN tparams.registry_type[1] ELSE "ghcr"]
       ELSE /\ tlocals' = [tlocals EXCEPT !.registryType =
                              IF Len(tparams.registry_type) > 0
                              THEN tparams.registry_type[1] ELSE "ghcr"]
            /\ tpc' = "range"
            /\ UNCHANGED tErr
    /\ UNCHANGED <<workerVars, fetchVars, buildVars, tparams, ti, tcalls, tResult,
                   tstored, tids>>

\* for i, artifactUrl := range ...: the next artifact and its digest.
TaskRange ==
    /\ tpc = "range"
    /\ ti < Len(tparams.oci_artifact_url)
    /\ ti' = ti + 1
    /\ tlocals' = [tlocals EXCEPT
          !.artifactUrl = tparams.oci_artifact_url[ti + 1],
          !.artifactDigest = IF Len(tparams.artifact_digest) >= ti + 1
                             THEN tparams.artifact_digest[ti + 1] ELSE ""]
    /\ tpc' = "fetch"
    /\ UNCHANGED <<workerVars, fetchVars, buildVars, tparams, tcalls, tErr, tResult,
                   tstored, tids>>

\* Mutant of TaskFetch: an artifact that cannot be fetched is skipped.
TaskFetch_SkipsOnError ==
    /\ tpc = "fetch"
    /\ \E ok \in BOOLEAN :
          /\ tcalls' = Append(tcalls, TaskCall("fetchImage", ok))
          /\ IF ok THEN tpc' = "show" ELSE tpc' = "range"
          /\ UNCHANGED tErr
    /\ UNCHANGED <<workerVars, fetchVars, buildVars, tparams, ti, tlocals, tResult,
                   tstored, tids>>

\* err := fetchImage(...); if err != nil { return err }
TaskFetch ==
    /\ tpc = "fetch"
    /\ \E ok \in BOOLEAN :
          /\ tcalls' = Append(tcalls, TaskCall("fetchImage", ok))
          /\ IF ok
             THEN tpc' = "show" /\ UNCHANGED tErr
             ELSE tpc' = "returned" /\ tErr' = << "Failed to process ", tlocals.artifactUrl >>
    /\ UNCHANGED <<workerVars, fetchVars, buildVars, tparams, ti, tlocals, tResult,
                   tstored, tids>>

\* err = showFiles(...); if err != nil { return err }
TaskShowFiles ==
    /\ tpc = "show"
    /\ \E ok \in BOOLEAN :
          /\ tcalls' = Append(tcalls, TaskCall("showFiles", ok))
          /\ IF ok
             THEN tpc' = "scan" /\ UNCHANGED tErr
             ELSE tpc' = "returned" /\ tErr' = << "readdir failed" >>
    /\ UNCHANGED <<workerVars, fetchVars, buildVars, tparams, ti, tlocals, tResult,
                   tstored, tids>>

\* grype run-<id>/image.tar -o json; a non-zero exit returns the error; the
\* output is decoded and the decoding error is dropped.
TaskScan ==
    /\ tpc = "scan"
    /\ \E ok \in BOOLEAN, decodes \in BOOLEAN :
          /\ tcalls' = Append(tcalls, TaskCall("grype", ok))
          /\ IF ok
             THEN /\ tpc' = "store"
                  /\ tlocals' = [tlocals EXCEPT !.matches =
                                    IF decodes THEN << "match" >> ELSE << >>]
                  /\ UNCHANGED tErr
             ELSE /\ tpc' = "returned"
                  /\ tErr' = << "exit status 1" >>
                  /\ UNCHANGED tlocals
    /\ UNCHANGED <<workerVars, fetchVars, buildVars, tparams, ti, tResult, tstored, tids>>

\* The result is built and sent to the index; on success its id is appended.
TaskStore ==
    /\ tpc = "store"
    /\ LET result == [ ImageURL |-> tlocals.artifactUrl,
                       ArtifactDigest |-> tlocals.artifactDigest,
                       Vulnerabilities |-> tlocals.matches ]
       IN  \E ok \in BOOLEAN :
              /\ tcalls' = Append(tcalls, TaskCall("sendDataToOpensearch", ok))
              /\ IF ok
                 THEN /\ tstored' = Append(tstored,
                            [ EsID |-> HashOf(result.ImageURL), Description |-> result ])
                      /\ tids' = Append(tids, HashOf(result.ImageURL))
                      /\ tpc' = "range"
                      /\ UNCHANGED tErr
                 ELSE /\ tErr' = << "error indexing document" >>
                      /\ tpc' = "returned"
                      /\ UNCHANGED <<tstored, tids>>
    /\ UNCHANGED <<workerVars, fetchVars, buildVars, tparams, ti, tlocals, tResult>>

\* After the last artifact: response.Result is set and RunTask returns nil.
TaskFinish ==
    /\ tpc = "range"
    /\ ti = Len(tparams.oci_artifact_url)
    /\ tResult' = [ set |-> TRUE, ids |-> tids ]
    /\ tpc' = "returned"
    /\ UNCHANGED <<workerVars, fetchVars, buildVars, tparams, ti, tlocals, tcalls, tErr,
                   tstored, tids>>

TaskNext ==
    \/ TaskCheckParams
    \/ TaskRange
    \/ TaskFetch
    \/ TaskShowFiles
    \/ TaskScan
    \/ TaskStore
    \/ TaskFinish

TaskSpec == TaskInit /\ [][TaskNext]_vars

\* ============================================================== properties
\* The callback has finished with the current message.
Done == hpc = "idle" /\ delivered > 0

\* How often, and where first, the callback's goroutine did `c` for the message.
HCount(c) == Cardinality({ i \in DOMAIN hlog : hlog[i].call = c })
HPos(c) ==
    IF \E i \in DOMAIN hlog : hlog[i].call = c
    THEN CHOOSE i \in DOMAIN hlog :
            /\ hlog[i].call = c
            /\ \A j \in DOMAIN hlog : hlog[j].call = c => i <= j
    ELSE 0

StageCalls == { "params", "credentials", "credfile", "pull", "build", "scan" }
TerminalStatuses == { TaskRunStatusFinished, TaskRunStatusFailed }

\* The Produce calls of the current message that carry a terminal status.
TerminalCalls == { i \in DOMAIN produced : produced[i].msg.Status \in TerminalStatuses }

\* C1: for every job message handed to the callback, msg.Ack is called exactly
\* once, after ProcessMessage has returned and after every Produce call made
\* for the message, whether ProcessMessage returned nil or an error.
C1_AckOnceAfterProcessMessage ==
    /\ HCount("Ack") <= 1
    /\ HCount("Ack") = 1 =>
          /\ HCount("ProcessMessage") = 1
          /\ HPos("return") > HPos("ProcessMessage")
          /\ HPos("return") < HPos("Ack")
          /\ \A i \in DOMAIN hlog : hlog[i].call = "Produce" => i < HPos("return")
    /\ Done => HCount("Ack") = 1

C1_Witness ==
    /\ Done
    /\ HCount("Ack") = 1
    /\ msgData.decodes
    /\ err # NoErr
    /\ Len(produced) = 2

\* C2 as stated: on every return path of ProcessMessage exactly one terminal
\* result message carrying the job's run identifier has been published.
C2_Original ==
    ppc = "returned" =>
        /\ Cardinality(TerminalCalls) = 1
        /\ \A i \in TerminalCalls : produced[i].msg.RunID = msgData.RunID

\* C2 amended: a message whose body decodes gets exactly one Produce call with
\* a terminal result message carrying its run identifier, on every return path
\* after the decode, and never two; a message whose body does not decode gets
\* none (ProcessMessage returns before the deferred publisher exists).
C2_OneTerminalPerDecodedJob ==
    /\ Cardinality(TerminalCalls) <= 1
    /\ \A i \in TerminalCalls :
          /\ produced[i].msg.RunID = msgData.RunID
          /\ produced[i].key = <<"task-run-result", msgData.RunID>>
    /\ ppc = "returned" =>
          Cardinality(TerminalCalls) = (IF msgData.decodes THEN 1 ELSE 0)

C2_Witness ==
    /\ ppc = "returned"
    /\ msgData.decodes
    /\ err = NoErr
    /\ Cardinality(TerminalCalls) = 1

\* C3 as stated: the terminal status matches the pipeline's outcome: finished
\* with the scanner's output when ProcessMessage's err is nil, failed with the
\* error's text as failureMessage otherwise.
C3_StatusMatchesOutcome ==
    \A i \in TerminalCalls :
        produced[i].ok =>
            IF err = NoErr
            THEN /\ produced[i].msg.Status = TaskRunStatusFinished
                 /\ produced[i].msg.Result \in ScanOutputs
            ELSE /\ produced[i].msg.Status = TaskRunStatusFailed
                 /\ produced[i].msg.FailureMessage = ErrorText(err)

\* C4: the status messages the worker publishes (its Produce calls) for one
\* handling of a job are in-progress, then one terminal status, all with the
\* job's run identifier; nothing follows the terminal one.
C4_StatusSequence ==
    /\ Len(produced) <= 2
    /\ Len(produced) >= 1 => produced[1].msg.Status = TaskRunStatusInProgress
    /\ Len(produced) = 2 => produced[2].msg.Status \in TerminalStatuses
    /\ \A i \in DOMAIN produced : produced[i].msg.RunID = msgData.RunID
    /\ (ppc = "returned" /\ msgData.decodes) => Len(produced) = 2

C4_Witness ==
    /\ Done
    /\ Len(produced) = 2
    /\ produced[1].msg.Status = TaskRunStatusInProgress
    /\ produced[2].msg.Status = TaskRunStatusFailed
    /\ produced[1].ok /\ produced[2].ok

\* C5: the in-progress message of the job is published (Produce is called with
\* {runID, in-progress}) before any pipeline step of the job starts: the
\* oci_artifact_url check, credential resolution, pull, build, scan.
C5_ProgressBeforeWork ==
    \A i \in DOMAIN hlog :
        hlog[i].call \in StageCalls =>
            /\ HPos("Produce") >= 1
            /\ HPos("Produce") < i
            /\ produced[1].key = <<"task-run-inprogress", msgData.RunID>>
            /\ produced[1].msg = [ZeroResponse EXCEPT
                                     !.RunID = msgData.RunID,
                                     !.Status = TaskRunStatusInProgress]

C5_Witness ==
    /\ HPos("scan") > 0
    /\ HPos("Produce") = HPos("ProcessMessage") + 1
    /\ produced[1].ok

\* C6 as stated: no periodic msg.InProgress call for a message is made after
\* its ProcessMessage has returned (and so none after msg.Ack).
C6_NoRenewalAfterCompletion == renewals.late = "none"

\* C7 as stated: if a tick elapsed while the pipeline was running, a periodic
\* renewal call has been made before the pipeline completed.
C7_Original ==
    (tickInPipeline /\ Phase \in {"returned", "acked"}) => renewals.running

\* C7 amended: with the heartbeat goroutine scheduled fairly, a tick that
\* elapses while the pipeline is running leads to a periodic renewal call made
\* while it is still running, unless the pipeline completes first.
C7_RenewalUnlessCompleted ==
    (tickInPipeline /\ Phase = "running") ~> (renewals.running \/ Phase # "running")

C7_Witness ==
    /\ tickInPipeline
    /\ Phase = "running"
    /\ renewals.running
    /\ renewals.late = "none"

\* C8: the ticker is created and the heartbeat goroutine launched before
\* ProcessMessage is invoked; ticker.Stop is called after ProcessMessage has
\* returned and before msg.Ack, whatever ProcessMessage returned.
C8_HeartbeatBracketsPipeline ==
    /\ HPos("ProcessMessage") > 0 =>
          /\ HPos("NewTicker") > 0
          /\ HPos("NewTicker") < HPos("go")
          /\ HPos("go") < HPos("ProcessMessage")
    /\ Phase = "running" =>
          /\ ticker[delivered] = "running"
          /\ hb[delivered] # "none"
    /\ HPos("Stop") > 0 =>
          /\ HPos("return") > 0
          /\ HPos("return") < HPos("Stop")
    /\ HPos("Ack") > 0 =>
          /\ HCount("Stop") = 1
          /\ HPos("Stop") < HPos("Ack")
          /\ ticker[delivered] = "stopped"
    /\ Done => HCount("Stop") = 1

C8_Witness ==
    /\ Done
    /\ err # NoErr
    /\ HPos("Stop") = HPos("return") + 1
    /\ HPos("Ack") = HPos("Stop") + 1
    /\ ticker[delivered] = "stopped"

\* The errors the pipeline's steps can return.
StageErrors ==
    ( { <<"OCI artifact url parameter is not provided">>, <<"exit status 1">> }
      \cup { ResolveCredentials(rt, getCredsFromParams(p)) :
                rt \in {"ghcr"} \cup { Lookup(q, "registry_type") : q \in ParamSets },
                p \in ParamSets }
      \cup WriteConfigOutcomes
      \cup { <<"Failed to process ", ArtifactURL, ": ">> \o ErrorText(e) :
                e \in PullOutcomes \cup BuildOutcomes } )
    \ { NoErr, <<"Failed to process ", ArtifactURL, ": ">> }

\* The terminal response of a decoded job says what the pipeline's steps
\* returned and nothing else.
TerminalFromPipelineOnly ==
    (ppc = "returned" /\ msgData.decodes) =>
        /\ err \in StageErrors \cup {NoErr}
        /\ err = NoErr <=> (HPos("scan") > 0 /\ hlog[HPos("scan")].ok)
        /\ \A i \in TerminalCalls :
              /\ produced[i].msg.FailureMessage = ErrorText(err)
              /\ produced[i].msg.Status = TerminalStatus(err)

InitialRenewalFailed == HPos("InProgress") > 0 /\ ~hlog[HPos("InProgress")].ok

\* C9: a failing msg.InProgress (the initial one or a periodic one) does not
\* abort the job: ProcessMessage is still invoked, the terminal response is
\* decided by the pipeline alone, the heartbeat goroutine stays in its loop
\* for later renewals, and the message is acknowledged.
C9_RenewalFailureHarmless ==
    (InitialRenewalFailed \/ renewals.failed) =>
        /\ Done => (HCount("ProcessMessage") = 1 /\ HCount("Ack") = 1)
        /\ TerminalFromPipelineOnly
        /\ hpc \in {"process", "ack", "idle"} => hb[delivered] \in {"wait", "renew"}
        /\ Phase = "running" => ticker[delivered] = "running"

C9_Witness ==
    /\ Done
    /\ InitialRenewalFailed
    /\ renewals.failed
    /\ hb[delivered] = "renew"
    /\ HCount("Ack") = 1
    /\ HPos("scan") > 0
    /\ err = NoErr

ProgressPublishFailed ==
    /\ Len(produced) >= 1
    /\ produced[1].msg.Status = TaskRunStatusInProgress
    /\ ~produced[1].ok

\* C10: a failed Produce of the in-progress message does not fail the job: the
\* pipeline's steps still run and the terminal response is decided by them
\* alone, never by the publish error; a failed Produce of the terminal message
\* does not prevent msg.Ack.
C10_PublishFailureHarmless ==
    /\ (ProgressPublishFailed /\ ppc \in {"defer", "returned"}) =>
          /\ HPos("params") > HPos("Produce")
          /\ err # PublishErr
          /\ TerminalFromPipelineOnly
    /\ Done => HCount("Ack") = 1

C10_Witness ==
    /\ Done
    /\ ProgressPublishFailed
    /\ HPos("scan") > 0
    /\ err = NoErr
    /\ Len(produced) = 2
    /\ ~produced[2].ok
    /\ HCount("Ack") = 1

\* ------------------------------------------------------------------ C11
MissingURL == msgData.decodes /\ ~HasKey(msgData.Params, "oci_artifact_url")
PipelineCalls == { "credentials", "credfile", "pull", "build", "scan" }

\* C11: for a job whose params lack oci_artifact_url the worker publishes the
\* in-progress message, never starts credential resolution, pull, archive
\* build or scan, publishes a terminal message with status failed and
\* failureMessage "OCI artifact url parameter is not provided", and
\* acknowledges the message.
C11_MissingURLFailsFast ==
    MissingURL =>
        /\ \A c \in PipelineCalls : HCount(c) = 0
        /\ Done =>
              /\ Len(produced) = 2
              /\ produced[1].msg.Status = TaskRunStatusInProgress
              /\ produced[1].msg.RunID = msgData.RunID
              /\ produced[2].msg.Status = TaskRunStatusFailed
              /\ produced[2].msg.RunID = msgData.RunID
              /\ produced[2].msg.FailureMessage =
                     <<"OCI artifact url parameter is not provided">>
              /\ HPos("params") > HPos("Produce")
              /\ HCount("Ack") = 1

C11_Witness ==
    /\ Done
    /\ MissingURL
    /\ Len(produced) = 2
    /\ produced[2].msg.FailureMessage = <<"OCI artifact url parameter is not provided">>
    /\ HCount("Ack") = 1

\* ------------------------------------------------------------------ C12
\* The pipeline's steps in the order the code reaches them.
StageOrder == << "credentials", "credfile", "pull", "build", "scan" >>

StageFailed(c) == HPos(c) > 0 /\ ~hlog[HPos(c)].ok

\* C12: the stages run in the order credential resolution, pull, archive
\* build, scan, each at most once and only after every earlier stage
\* succeeded; when credential resolution, pull or build returns an error the
\* scanner is never invoked for the job and the job ends failed.
C12_StagesInOrderFailFast ==
    /\ \A c \in PipelineCalls : HCount(c) <= 1
    /\ \A k \in 2..Len(StageOrder) :
          HPos(StageOrder[k]) > 0 =>
              /\ HPos(StageOrder[k-1]) > 0
              /\ HPos(StageOrder[k-1]) < HPos(StageOrder[k])
              /\ hlog[HPos(StageOrder[k-1])].ok
    /\ (\E c \in {"credentials", "credfile", "pull", "build"} : StageFailed(c)) =>
          /\ HCount("scan") = 0
          /\ ppc \in {"defer", "returned"}
          /\ err # NoErr
          /\ ppc = "returned" =>
                /\ Cardinality(TerminalCalls) = 1
                /\ \A i \in TerminalCalls :
                      /\ produced[i].msg.Status = TaskRunStatusFailed
                      /\ produced[i].msg.FailureMessage = ErrorText(err)

C12_Witness ==
    /\ Done
    /\ HPos("credentials") > 0 /\ hlog[HPos("credentials")].ok
    /\ HPos("pull") > 0 /\ hlog[HPos("pull")].ok
    /\ StageFailed("build")
    /\ HCount("scan") = 0
    /\ \E i \in TerminalCalls : produced[i].msg.Status = TaskRunStatusFailed

\* ------------------------------------------------------------------ C13
\* The registry kind the job's params ask for.
RequestedKind ==
    IF HasKey(msgData.Params, "registry_type")
    THEN Lookup(msgData.Params, "registry_type")
    ELSE "ghcr"

\* C13: without a registry_type key the registry kind used for credential
\* resolution is ghcr; with the key its value is used unchanged.
C13_RegistryKindDefault ==
    (msgData.decodes /\ ~MissingURL /\ HPos("credentials") > 0) =>
        /\ registryType = RequestedKind
        /\ hlog[HPos("credentials")].ok <=>
              ResolveCredentials(RequestedKind, getCredsFromParams(msgData.Params)) = NoErr
        /\ StageFailed("credentials") =>
              err = ResolveCredentials(RequestedKind, getCredsFromParams(msgData.Params))

C13_Witness ==
    /\ msgData.decodes
    /\ ~HasKey(msgData.Params, "registry_type")
    /\ HPos("credentials") > 0
    /\ hlog[HPos("credentials")].ok
    /\ registryType = "ghcr"

\* ------------------------------------------------------------------ C15
\* The job asks for ecr or acr and brings that kind's parameters.
CloudKindWithParams ==
    /\ msgData.decodes
    /\ ~MissingURL
    /\ \/ /\ RequestedKind = "ecr"
          /\ Lookup(msgData.Params, "ecr_account_id") # ""
          /\ Lookup(msgData.Params, "ecr_region") # ""
       \/ /\ RequestedKind = "acr"
          /\ Lookup(msgData.Params, "acr_login_server") # ""
          /\ Lookup(msgData.Params, "acr_tenant_id") # ""

\* C15: the kinds ecr and acr are supported: with the kind's required
\* parameters present, credential resolution in the worker never fails with
\* the unsupported-registry error.
C15_CloudKindsSupported ==
    (CloudKindWithParams /\ StageFailed("credentials")) =>
        err # <<"Unsupported registry type: ", RequestedKind>>

\* ------------------------------------------------------------------ C14
CallsMade(c) == { i \in DOMAIN fCalls : fCalls[i].call = c }

\* Nothing was resolved, written or pulled.
NoPartialResult ==
    /\ cfgAuths = {}
    /\ CallsMade("MkdirAll") = {} /\ CallsMade("WriteFile") = {}
    /\ CallsMade("pull") = {}
    /\ fLookup = <<>>
    /\ fpc \notin { "write", "pull" }

\* C14: for every registry kind not in {ghcr, ecr, acr} fetchImage fails with
\* the unsupported-registry error and leaves no partial result: no credential
\* entry, no credentials file, no pull or archive build.
C14_UnsupportedKindRejected ==
    (fpc # "idle" /\ fin.registryType \notin { "ghcr", "ecr", "acr" }) =>
        /\ NoPartialResult
        /\ fCalls = <<>>
        /\ fpc = "done" => fErr = <<"Unsupported registry type: ", fin.registryType>>

C14_Witness ==
    /\ fpc = "done"
    /\ fin.registryType = "dockerhub"
    /\ fin.output = "creds.json" /\ fin.ociArtifactURI = ArtifactURL
    /\ fErr = <<"Unsupported registry type: ", "dockerhub">>
    /\ cfgAuths = {}

\* ------------------------------------------------------------------ C16
GHCRMissingCredential ==
    /\ fin.registryType = "ghcr"
    /\ fin.creds.GithubUsername = <<>> \/ fin.creds.GithubToken = <<>>

\* C16: for kind ghcr, credential resolution fails with the missing-credential
\* error whenever the username or the token is empty; it then returns no
\* credential entry and no pull is attempted.
C16_GHCRMissingCredential ==
    GHCRMissingCredential =>
        /\ getGHCRAuth(fin.creds.GithubUsername, fin.creds.GithubToken).auths = {}
        /\ NoPartialResult
        /\ fpc = "done" =>
              fErr = <<"GHCR error: ", "GHCR requires --gh-username and --gh-token">>

C16_Witness ==
    /\ fpc = "done"
    /\ fin.registryType = "ghcr"
    /\ fin.creds.GithubUsername # <<>> /\ fin.creds.GithubToken = <<>>
    /\ fin.ociArtifactURI = ArtifactURL
    /\ fErr = <<"GHCR error: ", "GHCR requires --gh-username and --gh-token">>
    /\ cfgAuths = {}

\* ------------------------------------------------------------------ C17
GHCRValidCredential ==
    /\ fin.registryType = "ghcr"
    /\ fin.creds.GithubUsername # <<>> /\ fin.creds.GithubToken # <<>>

\* C17: for GHCR credentials with non-empty username and token, resolution
\* returns a map with exactly one entry, for the host ghcr.io, whose
\* base64-decoded secret is username:token.
C17_GHCREntry ==
    (GHCRValidCredential /\ fpc \notin { "idle", "switch" }) =>
        /\ Cardinality(cfgAuths) = 1
        /\ \A a \in cfgAuths :
              /\ a.host = <<"ghcr.io">>
              /\ DecodeString(a.auth).err = NoErr
              /\ DecodeString(a.auth).bytes =
                     fin.creds.GithubUsername \o <<58>> \o fin.creds.GithubToken
        /\ fpc = "write" => fErr = NoErr

C17_Witness ==
    /\ fpc = "write"
    /\ fin.registryType = "ghcr"
    /\ fin.creds.GithubUsername = <<117, 115>>
    /\ fin.creds.GithubToken = <<116>>
    /\ \E a \in cfgAuths :
          a.host = <<"ghcr.io">> /\ DecodeString(a.auth).bytes = <<117, 115, 58, 116>>

\* ------------------------------------------------------------------ C18
\* Credential resolution has returned (with an error, or to the config output).
Resolved == fpc \notin { "idle", "switch", "acr-refresh", "acr-access" }

\* Resolution failed: fetchImage returned the error of the kind's flow.
ResolutionFailed(prefix) ==
    /\ fpc = "done"
    /\ Len(fErr) >= 1 /\ fErr[1] = prefix
    /\ NoPartialResult

\* The answer GetAuthorizationToken gave, if the call was made.
ECRCalled == CallsMade("GetAuthorizationToken") # {}
ECRAnswer == fCalls[CHOOSE i \in CallsMade("GetAuthorizationToken") : TRUE].answer

ECRNoToken(resp) ==
    \/ resp.err # NoErr
    \/ Len(resp.AuthorizationData) = 0
    \/ ~resp.AuthorizationData[1].hasToken

\* C18: for kind ecr, resolution fails and returns no entry when the account
\* id or the region is empty (no call is then made), when the token-issuance
\* call errors, or when it returns no authorization data or no token; on
\* success it returns exactly one entry, keyed by the proxy endpoint without
\* its scheme, whose decoded secret is the issued AWS:<token> text.
C18_ECRResolution ==
    (fin.registryType = "ecr" /\ Resolved) =>
        /\ (fin.creds.ECRAccountID = <<>> \/ fin.creds.ECRRegion = <<>>) =>
              /\ ResolutionFailed("ECR error: ")
              /\ fCalls = <<>>
        /\ ~ECRCalled => ResolutionFailed("ECR error: ")
        /\ (ECRCalled /\ ECRNoToken(ECRAnswer)) => ResolutionFailed("ECR error: ")
        /\ ~ResolutionFailed("ECR error: ") =>
              /\ ECRCalled /\ ~ECRNoToken(ECRAnswer)
              /\ Cardinality(cfgAuths) = 1
              /\ \A a \in cfgAuths :
                    /\ <<"https://">> \o a.host = ECRAnswer.AuthorizationData[1].ProxyEndpoint
                    /\ DecodeString(a.auth).err = NoErr
                    /\ DecodeString(a.auth).bytes =
                           DecodeString(ECRAnswer.AuthorizationData[1].AuthorizationToken).bytes
                    /\ SubSeq(DecodeString(a.auth).bytes, 1, 4) = <<65, 87, 83, 58>>

C18_Witness ==
    /\ fin.registryType = "ecr"
    /\ fpc = "write"
    /\ ECRCalled
    /\ \E a \in cfgAuths :
          a.host = ECRHost /\ DecodeString(a.auth).bytes = <<65, 87, 83, 58, 112, 113>>

\* ------------------------------------------------------------------ C19
Posts == CallsMade("POST")

\* The exchange answered with a 2xx status, a JSON body and the token.
GoodAnswer(answer, field) ==
    /\ ~answer.failed
    /\ answer.status >= 200 /\ answer.status <= 299
    /\ answer.body.json
    /\ IF field = "refresh_token"
       THEN answer.body.refresh_token.kind = "string" /\ answer.body.refresh_token.val # <<>>
       ELSE answer.body.access_token.kind = "string" /\ answer.body.access_token.val # <<>>

FirstPost == fCalls[CHOOSE i \in Posts : \A j \in Posts : i <= j]
LastPost == fCalls[CHOOSE i \in Posts : \A j \in Posts : j <= i]

\* C19: for kind acr the grant_type=access_token exchange comes first and the
\* grant_type=refresh_token exchange second, sending exactly the refresh
\* token the first one returned; the second is never attempted when the first
\* failed; each fails on a non-2xx answer, a body that is not JSON or a missing
\* or empty token; on success the one entry, for the login server, holds the
\* placeholder username with the access token as secret.
C19_ACRExchangeOrder ==
    (fin.registryType = "acr" /\ fpc # "idle") =>
        /\ Cardinality(Posts) <= 2
        /\ Posts # {} =>
              /\ FirstPost.grant = "access_token"
              /\ FirstPost.url = <<"https://">> \o fin.creds.ACRLoginServer \o <<"/oauth2/exchange">>
              /\ FirstPost.token = fLocals.aadToken
              /\ ~GoodAnswer(FirstPost.answer, "refresh_token") =>
                    /\ Cardinality(Posts) = 1
                    /\ ResolutionFailed("ACR error: ")
        /\ Cardinality(Posts) = 2 =>
              /\ LastPost.grant = "refresh_token"
              /\ LastPost.url = <<"https://">> \o fin.creds.ACRLoginServer \o <<"/oauth2/token">>
              /\ LastPost.token = FirstPost.answer.body.refresh_token.val
              /\ ~GoodAnswer(LastPost.answer, "access_token") => ResolutionFailed("ACR error: ")
              /\ GoodAnswer(LastPost.answer, "access_token") =>
                    /\ Cardinality(cfgAuths) = 1
                    /\ \A a \in cfgAuths :
                          /\ a.host = fin.creds.ACRLoginServer
                          /\ DecodeString(a.auth).bytes =
                                 ACRPlaceholder \o LastPost.answer.body.access_token.val
                          /\ credentialsFunc(cfgAuths, a.host).Username = SubSeq(ACRPlaceholder, 1, 36)
                          /\ credentialsFunc(cfgAuths, a.host).Password =
                                 LastPost.answer.body.access_token.val
        /\ (Resolved /\ ~ResolutionFailed("ACR error: ")) =>
              /\ Cardinality(Posts) = 2
              /\ GoodAnswer(LastPost.answer, "access_token")

C19_Witness ==
    /\ fin.registryType = "acr"
    /\ fpc = "write"
    /\ Cardinality(Posts) = 2
    /\ LastPost.token = <<114, 50>>
    /\ \E a \in cfgAuths :
          a.host = ACRHost /\ credentialsFunc(cfgAuths, a.host).Password = <<114>>

\* ------------------------------------------------------------------ C20
HasEntry(host) == \E a \in cfgAuths : a.host = host

\* C20: the pull's credential function returns a credential for a host only
\* if cfg.Auths has an entry for exactly that host, and then that entry's; for
\* a host without an entry it fails with "no credentials for host", whatever
\* was looked up before, and lookups for hosts that have an entry still succeed.
C20_AuthenticatorLookup ==
    \A i \in DOMAIN fLookup :
        LET r == fLookup[i]
        IN  /\ r.err = NoErr => HasEntry(r.host)
            /\ ~HasEntry(r.host) =>
                  /\ r.err = <<"no credentials for host ">> \o r.host
                  /\ r.Username = <<>> /\ r.Password = <<>>
            /\ HasEntry(r.host) =>
                  \A a \in cfgAuths :
                      a.host = r.host =>
                          /\ r.err # <<"no credentials for host ">> \o r.host
                          /\ Len(SplitN2(DecodeString(a.auth).bytes)) = 2 =>
                                /\ r.err = NoErr
                                /\ r.Username = SplitN2(DecodeString(a.auth).bytes)[1]
                                /\ r.Password = SplitN2(DecodeString(a.auth).bytes)[2]

C20_Witness ==
    /\ Len(fLookup) = 2
    /\ ~HasEntry(fLookup[1].host)
    /\ fLookup[1].err = <<"no credentials for host ", "docker.io">>
    /\ HasEntry(fLookup[2].host)
    /\ fLookup[2].err = NoErr
    /\ fLookup[2].Username = <<117>>
    /\ fLookup[2].Password = <<116, 58, 107>>

\* ------------------------------------------------------------------ C26
\* Scanner outputs that decode as the structured JSON report.  The worker
\* runs grype without an output format, so what it gets is the table.
JSONOutputs == { "{\"matches\":[]}" }

ScanRan == HPos("scan") > 0

\* C26: a scan fails the job in both failure modes: a non-zero exit makes the
\* job end failed, and output that does not decode as the structured JSON
\* makes the job end failed, with the failure told, instead of producing a
\* result.
C26_ScanFailuresFailJob ==
    (ppc = "returned" /\ ScanRan) =>
        \A i \in TerminalCalls :
            /\ ~hlog[HPos("scan")].ok =>
                  /\ produced[i].msg.Status = TaskRunStatusFailed
                  /\ produced[i].msg.FailureMessage = <<"exit status 1">>
            /\ (hlog[HPos("scan")].ok /\ response.Result \notin JSONOutputs) =>
                  /\ produced[i].msg.Status = TaskRunStatusFailed
                  /\ produced[i].msg.FailureMessage # NoText
                  /\ produced[i].msg.Result = ""

\* ------------------------------------------------------------------ C27
\* Paths as their elements: where createTar writes the archive and what the
\* scanner is pointed at (docker-archive:./image.tar).
ArchivePath == << "image.tar" >>
ScanTarget == << ".", "image.tar" >>
CleanPath(path) == SelectSeq(path, LAMBDA e : e # ".")

\* C27: when credential resolution, pull and archive build all succeed the
\* scanner is invoked exactly once, after the archive was written and on the
\* path it was written at, and the job then reaches the finished state.
C27_ScanOnceThenFinished ==
    (ppc = "returned" /\ HPos("build") > 0 /\ hlog[HPos("build")].ok) =>
        /\ HCount("scan") = 1
        /\ HPos("build") < HPos("scan")
        /\ CleanPath(ScanTarget) = CleanPath(ArchivePath)
        /\ hlog[HPos("scan")].ok =>
              /\ Cardinality(TerminalCalls) = 1
              /\ \A i \in TerminalCalls : produced[i].msg.Status = TaskRunStatusFinished

\* ------------------------------------------------------------------ C28
\* The context was cancelled while the current message was being handled.
CancelledInFlight == shutdown.done /\ shutdown.job # 0 /\ shutdown.job = delivered

\* The callback's goroutine can take its next step.
HandlerStep ==
    \/ InitialInProgress \/ NewTicker \/ GoHeartbeat \/ CallProcessMessage
    \/ Unmarshal \/ PublishProgress \/ ReadParams \/ FetchCredentials
    \/ WriteConfig \/ Pull \/ BuildArchive \/ Scan \/ PublishResult
    \/ StopTicker \/ Ack

C29_OneHandlerAtATime ==
    [][ delivered' # delivered =>
          /\ hpc = "idle"
          /\ ppc \in { "none", "returned" }
          /\ delivered > 0 => (hlog # <<>> /\ hlog[Len(hlog)].call = "Ack") ]_vars

C29_Witness ==
    /\ delivered = 2
    /\ hpc = "process"
    /\ ppc = "scan"

\* ------------------------------------------------------------------ C21
\* fetchImage has returned to the job.
BuildReturned == bpc = "returned"

\* The job's pull resolved a manifest.
Resolved_Manifest == manifest # NoManifest

FetchedContentFiles ==
    { "config.json", "oci-manifest.json", "manifest.json", "image.tar" }
        \cup { LayerNames[k] : k \in 1..Len(LayerNames) }

\* C21: when the config media type or a layer media type of the manifest is
\* outside the allow-list the pull fails with the media type error, and the
\* job has written neither config.json, a layer file, oci-manifest.json,
\* manifest.json nor image.tar.
C21_NothingWrittenBeforeValidation ==
    (BuildReturned /\ Resolved_Manifest /\ ~validateOCIMediaTypes(manifest)) =>
        /\ bErr = << "media type validation failed" >>
        /\ bwritten \cap FetchedContentFiles = {}

\* ------------------------------------------------------------------ C22
\* The build of the current job returned without error.
BuildSucceeded == BuildReturned /\ bErr = NoErr

\* The archive's first member, the Docker-style manifest.
ArchivedDockerManifest == wd["image.tar"].members[1].content

\* C22: for a manifest with N >= 0 layers that builds, the Docker-style
\* manifest is a list of one entry with Config config.json, RepoTags the one
\* reference string and Layers the array [layer1.tar .. layerN.tar], and
\* config.json and layerK.tar hold the config blob and the K-th layer blob.
C22_DockerManifest ==
    BuildSucceeded =>
        LET N == Len(manifest.Layers)
        IN  /\ Len(ArchivedDockerManifest.entries) = 1
            /\ ArchivedDockerManifest.entries[1].Config = "config.json"
            /\ ArchivedDockerManifest.entries[1].RepoTags =
                  [ json |-> "array", elems |-> << RefString(bref) >> ]
            /\ ArchivedDockerManifest.entries[1].Layers =
                  [ json |-> "array", elems |-> [ k \in 1..N |-> LayerNames[k] ] ]
            /\ wd["config.json"] = Blob(manifest.Config.Digest)
            /\ \A k \in 1..N : wd[LayerNames[k]] = Blob(manifest.Layers[k].Digest)

\* ------------------------------------------------------------------ C23
\* The member names of the archive at image.tar, in order.
MemberNames ==
    [ i \in 1..Len(wd["image.tar"].members) |-> wd["image.tar"].members[i].name ]

ExpectedMembers ==
    << "manifest.json", "config.json", "oci-manifest.json" >>
        \o [ k \in 1..Len(manifest.Layers) |-> LayerNames[k] ]

\* C23: the members of the archive are manifest.json, config.json,
\* oci-manifest.json, then layer1.tar .. layerN.tar, each once and nothing
\* else; while the archive is being written its members are a prefix of
\* that list.
C23_MemberOrder ==
    /\ bpc = "tarloop" =>
          /\ Len(MemberNames) = tarPos - 1
          /\ MemberNames = SubSeq(ExpectedMembers, 1, tarPos - 1)
    /\ BuildSucceeded =>
          /\ MemberNames = ExpectedMembers
          /\ \A i, j \in 1..Len(MemberNames) : MemberNames[i] = MemberNames[j] => i = j

C23_Witness ==
    /\ BuildSucceeded
    /\ Len(manifest.Layers) = 2
    /\ MemberNames[4] = "layer1.tar"
    /\ MemberNames[5] = "layer2.tar"

\* ------------------------------------------------------------------ C24
\* C24: when fetchImage returns an error there is no file at image.tar.
C24_NoArchiveOnFailure ==
    (BuildReturned /\ bErr # NoErr) => wd["image.tar"] = Absent

\* ------------------------------------------------------------------ C25
\* Two returned builds of the same reference and manifest, each started in
\* an empty working directory.
SameCleanBuilds(i, j) ==
    /\ i # j
    /\ builds[i].ok /\ builds[j].ok
    /\ builds[i].clean /\ builds[j].clean
    /\ builds[i].ociArtifactURI = builds[j].ociArtifactURI
    /\ builds[i].manifest = builds[j].manifest

\* C25: two builds from the same manifest and content, each in a clean
\* working directory, give the same ordered members with the same names and
\* contents.
C25_Idempotent ==
    \A i, j \in 1..Len(builds) :
        SameCleanBuilds(i, j) => builds[i].archive.members = builds[j].archive.members

C25_Witness ==
    \E i, j \in 1..Len(builds) :
        /\ SameCleanBuilds(i, j)
        /\ Len(builds[i].manifest.Layers) = 2
        /\ Len(builds[j].archive.members) = 5

\* ------------------------------------------------------------------ C30
\* C30: a job that is not the first of its process starts with an empty
\* content store and a working directory without files of earlier jobs.
C30_JobScopedState ==
    (bpc = "switch" /\ bjob > 1) =>
        /\ memoryStore = {}
        /\ wd = EmptyDir

\* ------------------------------------------------------------------ C31
\* The renewal goroutine of message m is alive: it waits on ticker.C or is
\* about to call msg.InProgress.
HeartbeatAlive(m) == hb[m] \in { "wait", "renew" }

\* The callback runs on the consumer's goroutine, which the Go scheduler
\* keeps running as well: a handler that can take a step takes it.
LiveSpec == FairSpec /\ WF_vars(HandlerStep)

\* C31: the heartbeat goroutine does not outlive its job: once the ticker
\* of a message was stopped its goroutine terminates.
C31_HeartbeatTerminates ==
    \A m \in Msgs : (ticker[m] = "stopped") ~> ~HeartbeatAlive(m)

\* ------------------------------------------------------------------ C32
\* The lookups of host ghcr.io made by the pull after a GHCR resolution with
\* non-empty username and token.
GHCRLookups ==
    IF GHCRValidCredential
    THEN { i \in DOMAIN fLookup : fLookup[i].host = <<"ghcr.io">> }
    ELSE {}

HasColon(bs) == \E i \in DOMAIN bs : bs[i] = 58

\* C32 as stated: for all non-empty usernames and tokens the lookup of
\* ghcr.io returns the original username and the original token.
C32_Original ==
    \A i \in GHCRLookups :
        /\ fLookup[i].err = NoErr
        /\ fLookup[i].Username = fin.creds.GithubUsername
        /\ fLookup[i].Password = fin.creds.GithubToken

\* C32: the lookup of ghcr.io succeeds and cuts the stored secret at its
\* first colon: a username without a colon and any token come back as they
\* were given; a username with a colon comes back cut at its first colon,
\* the rest of it going in front of the token in the password.
C32_GHCRRoundTrip ==
    \A i \in GHCRLookups :
        LET u == fin.creds.GithubUsername
            t == fin.creds.GithubToken
        IN  /\ fLookup[i].err = NoErr
            /\ fLookup[i].Username \o <<58>> \o fLookup[i].Password = u \o <<58>> \o t
            /\ ~HasColon(fLookup[i].Username)
            /\ ~HasColon(u) =>
                  /\ fLookup[i].Username = u
                  /\ fLookup[i].Password = t

C32_Witness ==
    /\ GHCRLookups # {}
    /\ fin.creds.GithubUsername = <<117, 115>>
    /\ fin.creds.GithubToken = <<116, 58, 107>>
    /\ \E i \in GHCRLookups :
          /\ fLookup[i].Username = <<117, 115>>
          /\ fLookup[i].Password = <<116, 58, 107>>

\* ------------------------------------------------------------------ C33
\* The message being handled has a body that does not decode.
UndecodableBody == delivered > 0 /\ ~msgData.decodes

\* C33: a message whose body does not decode as a task request gets no
\* progress message and no terminal result message, none of the pipeline's
\* steps runs for it, and it is acknowledged exactly once.
C33_UndecodableBody ==
    UndecodableBody =>
        /\ produced = <<>>
        /\ HCount("Produce") = 0
        /\ \A c \in PipelineCalls \cup { "params" } : HCount(c) = 0
        /\ HCount("Ack") <= 1
        /\ Done =>
              /\ HCount("ProcessMessage") = 1
              /\ HCount("return") = 1
              /\ HCount("Ack") = 1
              /\ HPos("return") < HPos("Ack")

C33_Witness ==
    /\ UndecodableBody
    /\ Done
    /\ HCount("Ack") = 1
    /\ produced = <<>>
    /\ err = <<"json: cannot unmarshal message data">>

\* ------------------------------------------------------------------ C34
\* The members of the archive after manifest.json, config.json and
\* oci-manifest.json.
LayerMembers == SubSeq(wd["image.tar"].members, 4, Len(wd["image.tar"].members))

\* The file names the Layers value of the archived Docker manifest lists
\* (null lists none).
ListedLayers ==
    IF ArchivedDockerManifest.entries[1].Layers.json = "array"
    THEN ArchivedDockerManifest.entries[1].Layers.elems
    ELSE << >>

\* C34: whatever earlier jobs left in the working directory, the layer
\* members of a job's archive and the layers its Docker manifest lists are
\* layer1.tar .. layerN.tar for the N layers of that job's manifest, each
\* member holding the bytes of that job's layer.
C34_LayersFromOwnManifest ==
    BuildSucceeded =>
        LET N == Len(manifest.Layers)
        IN  /\ Len(LayerMembers) = N
            /\ \A k \in 1..N :
                  /\ LayerMembers[k].name = LayerNames[k]
                  /\ LayerMembers[k].content = Blob(manifest.Layers[k].Digest)
            /\ ListedLayers = [ k \in 1..N |-> LayerNames[k] ]

C34_Witness ==
    /\ BuildSucceeded
    /\ bjob = 2
    /\ ~bclean
    /\ Len(manifest.Layers) = 1
    /\ wd["layer2.tar"] # Absent
    /\ builds[1].ok
    /\ builds[1].manifest.Layers[1] # manifest.Layers[1]
    /\ Len(LayerMembers) = 1

\* ------------------------------------------------------------------ C35
\* The steps taken for one artifact, in their order.
ArtifactSteps == << "fetchImage", "showFiles", "grype", "sendDataToOpensearch" >>

\* The digest that goes with the i-th artifact.
PairedDigest(i) ==
    IF i <= Len(tparams.artifact_digest) THEN tparams.artifact_digest[i] ELSE ""

\* The call at position k is the step that follows the call before it: the
\* next step of the same artifact, or the fetch of the next artifact.
FollowsInOrder(k) ==
    LET c == tcalls[k]
        StepOf(x) == CHOOSE j \in 1..Len(ArtifactSteps) : ArtifactSteps[j] = x.call
    IN  IF k = 1
        THEN c.i = 1 /\ c.call = "fetchImage"
        ELSE LET b == tcalls[k - 1]
             IN  \/ c.i = b.i /\ StepOf(c) = StepOf(b) + 1
                 \/ c.i = b.i + 1 /\ c.call = "fetchImage" /\ b.call = "sendDataToOpensearch"

RunTaskFailedAt(i) ==
    /\ tpc = "returned"
    /\ tcalls # << >>
    /\ ~tcalls[Len(tcalls)].ok
    /\ tcalls[Len(tcalls)].i = i

\* C35: the artifacts are taken in the order of the oci_artifact_url list,
\* the i-th with the i-th artifact_digest (empty when there is none); the
\* first failing step ends the task: nothing is called after it, the error
\* is returned, response.Result is not set, and the results of the artifacts
\* before it are stored.
C35_InOrderStopAtFirstFailure ==
    /\ \A k \in 1..Len(tcalls) :
          /\ FollowsInOrder(k)
          /\ tcalls[k].url = tparams.oci_artifact_url[tcalls[k].i]
          /\ tcalls[k].digest = PairedDigest(tcalls[k].i)
          /\ k < Len(tcalls) => tcalls[k].ok
    /\ \A j \in 1..Len(tstored) :
          /\ tstored[j].Description.ImageURL = tparams.oci_artifact_url[j]
          /\ tstored[j].Description.ArtifactDigest = PairedDigest(j)
    /\ \A i \in 1..MaxArtifacts :
          RunTaskFailedAt(i) =>
              /\ tErr # NoErr
              /\ ~tResult.set
              /\ Len(tstored) = i - 1
              /\ \A k \in 1..Len(tcalls) : tcalls[k].i <= i
    /\ (tpc = "returned" /\ tErr = NoErr) =>
          /\ tResult.set
          /\ Len(tstored) = Len(tparams.oci_artifact_url)
    /\ tResult.set => (tpc = "returned" /\ tErr = NoErr)

C35_Witness ==
    /\ Len(tparams.oci_artifact_url) = 2
    /\ Len(tparams.artifact_digest) = 1
    /\ RunTaskFailedAt(2)
    /\ tcalls[Len(tcalls)].call = "sendDataToOpensearch"
    /\ tcalls[Len(tcalls)].digest = ""
    /\ Len(tstored) = 1
    /\ tstored[1].Description.ArtifactDigest = tparams.artifact_digest[1]
    /\ ~tResult.set
====
